---- MODULE Spec2Model ----
(***************************************************************************)
(* Output validation guard of Auto-Claude: the pre-tool-use hook that      *)
(* decides allowed / warned / blocked for every tool call of an agent      *)
(* session, with its rule catalog, override-token store and event log.     *)
(*                                                                         *)
(* Text (commands, file contents, paths, urls, patterns) is a sequence of  *)
(* atoms; an atom plays the part of a character, "/" is the path           *)
(* separator.  Substring search, regex search and glob matching are        *)
(* computed on these sequences.                                            *)
(*                                                                         *)
(* Specifications:                                                         *)
(*   Spec        one session: tool calls, decisions, token generation      *)
(*   SpecFault   the session with internal faults of the validator         *)
(*   SpecStore   two sessions and the command line on override-tokens.json *)
(*   SpecReport  the report generated from the events of a session         *)
(*   SpecLoader  the config loader: files, per-project cache, load errors   *)
(*   SpecFix     the anomaly-fix IPC handlers and their child processes     *)
(*   SpecGraph   the useMemoryGraph hook of the renderer                    *)
(***************************************************************************)
EXTENDS Integers, Sequences, FiniteSets, TLC

\* ------------------------------------------------------------------ bounds

\* The clock runs from 0 to MaxTime (minutes).
MaxTime == 1

\* At most MaxTokens override tokens are ever generated for the project.
MaxTokens == 2

\* At most MaxEvents tool calls are validated in the session.
MaxEvents == 2

\* At most MaxOps operations are issued on the token file by the concurrent
\* sessions and the command line together.
MaxOps == 4

\* At most MaxFaults internal faults hit the validator in the session.
MaxFaults == 1

\* At most MaxReport events are handed to the report generator.
MaxReport == 3

\* Anomaly fixes started.
MaxFixes == 2

\* Log entries a fix script writes to its output.
MaxLogs == 1

\* ------------------------------------------------------------------ text

NoText == << >>

\* Case folding of one atom (literal patterns match case-insensitively).
Lower(a) ==
  CASE a = "RM" -> "rm"
    [] a = "-RF" -> "-rf"
    [] a = "TELNET" -> "telnet"
    [] OTHER -> a

\* pat (a sequence of atom classes) matches text at its first position.
MatchesAt(text, pat, fold) ==
  /\ Len(pat) <= Len(text)
  /\ \A i \in 1..Len(pat) :
       IF fold
         THEN Lower(text[i]) \in {Lower(c) : c \in pat[i]}
         ELSE text[i] \in pat[i]

\* Search (not full match): pat occurs somewhere in text.  Scans left to
\* right, one start position after the other.
RECURSIVE PatternSearch(_, _, _)
PatternSearch(text, pat, fold) ==
  IF MatchesAt(text, pat, fold) THEN TRUE
  ELSE IF text = << >> THEN FALSE
  ELSE PatternSearch(Tail(text), pat, fold)

\* Literal substring test of two atom sequences (case-sensitive).
RECURSIVE ContainsLiteral(_, _)
ContainsLiteral(text, sub) ==
  IF Len(sub) > Len(text) THEN FALSE
  ELSE IF SubSeq(text, 1, Len(sub)) = sub THEN TRUE
  ELSE ContainsLiteral(Tail(text), sub)

\* ------------------------------------------------------------------ globs

\* One glob element: a literal atom, ?, *, **, [abc] or [!abc].
Lit(c) == [k |-> "lit", s |-> {c}]
Any1 == [k |-> "any1", s |-> {}]
Star == [k |-> "star", s |-> {}]
DStar == [k |-> "dstar", s |-> {}]
Cls(S) == [k |-> "cls", s |-> S]
NCls(S) == [k |-> "ncls", s |-> S]

ElemMatch(g, c) ==
  CASE g.k = "lit" -> c \in g.s
    [] g.k = "cls" -> c \in g.s
    [] g.k = "ncls" -> c \notin g.s /\ c # "/"
    [] g.k = "any1" -> c # "/"
    [] OTHER -> FALSE

\* Whole-path glob match: ** spans directories, * and ? stay inside one
\* path component.
RECURSIVE GlobMatch(_, _)
GlobMatch(glob, path) ==
  IF glob = << >> THEN path = << >>
  ELSE LET g == Head(glob) IN
    CASE g.k = "dstar" ->
           \/ GlobMatch(Tail(glob), path)
           \/ (path # << >> /\ GlobMatch(glob, Tail(path)))
      [] g.k = "star" ->
           \/ GlobMatch(Tail(glob), path)
           \/ (path # << >> /\ Head(path) # "/" /\ GlobMatch(glob, Tail(path)))
      [] OTHER ->
           /\ path # << >>
           /\ ElemMatch(g, Head(path))
           /\ GlobMatch(Tail(glob), Tail(path))

\* ------------------------------------------------------------------ rules

ToolTypes == {"bash", "write", "edit", "web_fetch", "web_search"}

Severities == {"LOW", "MEDIUM", "HIGH", "CRITICAL"}

NoSeverity == "NONE"

\* Order of the severity levels; no severity ranks below LOW.
SevRank(s) ==
  CASE s = "CRITICAL" -> 4
    [] s = "HIGH" -> 3
    [] s = "MEDIUM" -> 2
    [] s = "LOW" -> 1
    [] OTHER -> 0

\* A rule.  pattern is a sequence of atom classes; a literal pattern has
\* singleton classes and is matched case-insensitively.
Rule(id, pat, ptype, sev, prio, tools, ctx, msg, sugg, cat, en) ==
  [rule_id |-> id, pattern |-> pat, pattern_type |-> ptype, severity |-> sev,
   priority |-> prio, tool_types |-> tools, context |-> ctx, message |-> msg,
   suggestions |-> sugg, category |-> cat, enabled |-> en]

\* The part of the built-in catalog the model carries (6 of the ~40 rules).
BuiltinRules == <<
  Rule("bash-rm-rf-root", <<{"rm"}, {"-rf"}, {"/"}>>, "regex", "CRITICAL", "P0",
       {"bash"}, "command", "recursive delete from root", <<"use a relative path">>,
       "filesystem", TRUE),
  Rule("bash-curl-data-exfil", <<{"curl"}, {"-X"}, {"POST"}>>, "regex", "MEDIUM", "P2",
       {"bash"}, "command", "potential data exfiltration", <<"review the target">>,
       "data_exfiltration", TRUE),
  Rule("bash-deprecated-command", <<{"ftp", "telnet", "rsh"}>>, "regex", "LOW", "P3",
       {"bash"}, "command", "deprecated command", <<"use ssh">>,
       "deprecation", TRUE),
  Rule("write-password-pattern", <<{"password", "pwd"}, {"="}>>, "regex", "HIGH", "P1",
       {"write", "edit"}, "file_content", "password in file", <<"use a secret store">>,
       "secret_exposure", TRUE),
  Rule("path-system-directory-write", <<{"/"}, {"etc", "usr", "bin", "lib"}, {"/"}>>,
       "regex", "CRITICAL", "P0", {"write", "edit"}, "file_path",
       "write to system directory", <<"write inside the project">>,
       "system_files", TRUE),
  Rule("web-fetch-local-file", <<{"file://"}>>, "regex", "HIGH", "P1",
       {"web_fetch"}, "all", "local file inclusion attempt", <<"fetch over https">>,
       "file_access", TRUE) >>

\* Custom rules used by the configurations below.
CustomNoRm ==
  Rule("no-rm-in-scripts", <<{"RM"}, {"-RF"}>>, "literal", "HIGH", "P1",
       {"bash", "write", "edit"}, "all", "rm -rf is not allowed here",
       <<"delete files one by one">>, "custom", TRUE)

CustomDeprecated ==
  Rule("bash-deprecated-command", <<{"telnet"}>>, "literal", "MEDIUM", "P2",
       {"bash"}, "command", "telnet is banned in this project", <<"use ssh">>,
       "custom", TRUE)

\* ------------------------------------------------------------------ config

\* severity_overrides maps a rule id to a severity; NoSeverity = no entry.
ValidationConfig(en, strict, paths, disabled, overrides, custom) ==
  [enabled |-> en, strict_mode |-> strict, allowed_paths |-> paths,
   disabled_rules |-> disabled, severity_overrides |-> overrides,
   custom_rules |-> custom]

NoOverrides == [id \in {} |-> NoSeverity]

GlobTests == <<Lit("tests"), Lit("/"), DStar>>
GlobTmp == <<Lit("/"), Lit("tmp"), Lit("/"), Star>>

CfgDefault == ValidationConfig(TRUE, FALSE, {}, {}, NoOverrides, << >>)

CfgStrictPaths ==
  ValidationConfig(TRUE, TRUE, {GlobTests}, {}, NoOverrides, <<CustomNoRm>>)

CfgOff == ValidationConfig(FALSE, TRUE, {GlobTests}, {}, NoOverrides, << >>)

CfgTuned ==
  ValidationConfig(TRUE, FALSE, {GlobTmp}, {"bash-deprecated-command"},
                   [id \in {"bash-curl-data-exfil", "path-system-directory-write"} |->
                      IF id = "bash-curl-data-exfil" THEN "HIGH" ELSE "LOW"],
                   <<CustomDeprecated, CustomNoRm>>)

Configs == {CfgDefault, CfgStrictPaths, CfgOff, CfgTuned}

RuleIds(rs) == {rs[i].rule_id : i \in 1..Len(rs)}

\* The rule with the severity override of its id applied (severity only).
ApplyOverride(cfg, r) ==
  IF r.rule_id \in DOMAIN cfg.severity_overrides
    THEN [r EXCEPT !.severity = cfg.severity_overrides[r.rule_id]]
    ELSE r

\* Mutant: disabled_rules is applied to the built-ins only, before the
\* custom rules are appended.
merge_with_defaults_DisableBuiltinsOnly(cfg, builtins) ==
  LET custom == cfg.custom_rules
      kept == SelectSeq(builtins, LAMBDA r : /\ r.rule_id \notin RuleIds(custom)
                                            /\ r.rule_id \notin cfg.disabled_rules)
      all == kept \o custom
  IN [i \in 1..Len(all) |-> ApplyOverride(cfg, all[i])]

\* Mutant: the custom rules are appended and the built-in of the same id
\* stays in the set.
merge_with_defaults_AppendOnly(cfg, builtins) ==
  LET all == builtins \o cfg.custom_rules
      live == SelectSeq(all, LAMBDA r : r.rule_id \notin cfg.disabled_rules)
  IN [i \in 1..Len(live) |-> ApplyOverride(cfg, live[i])]

\* Effective rule set: the built-ins not replaced by a custom rule of the
\* same id, followed by the custom rules; rules whose id is disabled are
\* excluded; severity overrides are applied by id.
merge_with_defaults(cfg, builtins) ==
  LET custom == cfg.custom_rules
      kept == SelectSeq(builtins, LAMBDA r : r.rule_id \notin RuleIds(custom))
      all == kept \o custom
      live == SelectSeq(all, LAMBDA r : r.rule_id \notin cfg.disabled_rules)
  IN [i \in 1..Len(live) |-> ApplyOverride(cfg, live[i])]

\* Mutant: the enabled flag of a rule is not looked at.
get_active_rules_IgnoresEnabled(rs, tool_type) ==
  SelectSeq(rs, LAMBDA r : tool_type \in r.tool_types)

\* Rules that are enabled and apply to the tool type.
get_active_rules(rs, tool_type) ==
  SelectSeq(rs, LAMBDA r : r.enabled /\ tool_type \in r.tool_types)

\* ------------------------------------------------------------------ config files

\* A value written in a config file, with the type the parser gives it.
JBool(b) == [kind |-> "bool", val |-> b]
JStr(s) == [kind |-> "string", val |-> s]
JList(items) == [kind |-> "list", val |-> items]
JMap(f) == [kind |-> "map", val |-> f]

\* output-validation.json: present or not, parseable or not, and the
\* fields written in it (a function from field names to values).
ConfigFile(present, well_formed, fields) ==
  [present |-> present, well_formed |-> well_formed, fields |-> fields]

NoFields == [f \in {} |-> JBool(FALSE)]

NoFile == ConfigFile(FALSE, TRUE, NoFields)

ConfigFields ==
  {"enabled", "strict_mode", "allowed_paths", "disabled_rules",
   "severity_overrides", "custom_rules"}

\* The type the schema asks of each field of the config.
FieldKind(field) ==
  CASE field \in {"enabled", "strict_mode"} -> "bool"
    [] field = "severity_overrides" -> "map"
    [] OTHER -> "list"

\* The fields of a custom rule, the required ones and the type of each.
RuleFields ==
  {"rule_id", "name", "description", "pattern", "pattern_type", "severity",
   "priority", "tool_types", "context", "message", "suggestions", "category",
   "enabled"}

RequiredRuleFields ==
  {"rule_id", "name", "description", "pattern", "tool_types", "message", "category"}

RuleFieldKind(field) ==
  CASE field = "enabled" -> "bool"
    [] field \in {"tool_types", "suggestions"} -> "list"
    [] OTHER -> "string"

Priorities == {"P0", "P1", "P2", "P3"}

PatternTypes == {"regex", "literal"}

Contexts == {"command", "file_content", "file_path", "all"}

Range(seq) == {seq[i] : i \in 1..Len(seq)}

\* Diagnostic codes of the loader.
ConfigParseError == "config-parse"
ConfigSchemaError == "config-schema"
CustomRuleValidationError == "custom-rule"
PatternCompileError == "pattern-compile"

LoadError(code, field) == [code |-> code, field |-> field]

\* A regex compiles unless one of its classes is empty (an unclosed or
\* empty bracket expression).
Compiles(pat) == \A i \in 1..Len(pat) : pat[i] # {}

\* The value of an optional field of a custom rule, or its default.
FieldOr(raw, field, default) ==
  IF field \in DOMAIN raw THEN raw[field].val ELSE default

\* Errors of one custom rule: missing required fields, ill-typed fields,
\* values outside an enum, a regex that does not compile.
validate_custom_rule(raw) ==
  LET missing == RequiredRuleFields \ DOMAIN raw
      ill_typed == {f \in DOMAIN raw \cap RuleFields : raw[f].kind # RuleFieldKind(f)}
      typed == (DOMAIN raw \cap RuleFields) \ ill_typed
      bad_enum ==
        {f \in typed :
           \/ f = "pattern_type" /\ raw[f].val \notin PatternTypes
           \/ f = "severity" /\ raw[f].val \notin Severities
           \/ f = "priority" /\ raw[f].val \notin Priorities
           \/ f = "context" /\ raw[f].val \notin Contexts
           \/ f = "tool_types" /\ ~(Range(raw[f].val) \subseteq ToolTypes)
           \/ f = "rule_id" /\ raw[f].val = ""}
      schema == missing \cup ill_typed \cup bad_enum
      regex == /\ "pattern" \in typed
               /\ ("pattern_type" \notin DOMAIN raw \/ "pattern_type" \notin schema)
               /\ FieldOr(raw, "pattern_type", "regex") = "regex"
               /\ ~Compiles(raw["pattern"].val)
  IN {LoadError(CustomRuleValidationError, f) : f \in schema}
     \cup (IF regex THEN {LoadError(PatternCompileError, "pattern")} ELSE {})

\* The rule a valid custom rule stands for, optional fields defaulted.
build_rule(raw) ==
  Rule(raw["rule_id"].val, raw["pattern"].val,
       FieldOr(raw, "pattern_type", "regex"),
       FieldOr(raw, "severity", "MEDIUM"),
       FieldOr(raw, "priority", "P2"),
       Range(raw["tool_types"].val),
       FieldOr(raw, "context", "all"),
       raw["message"].val,
       FieldOr(raw, "suggestions", << >>),
       raw["category"].val,
       FieldOr(raw, "enabled", TRUE))

\* Fields of the file that violate the schema: wrong type, or a severity
\* override outside the enum.
schema_violations(fields) ==
  {f \in DOMAIN fields \cap ConfigFields :
     \/ fields[f].kind # FieldKind(f)
     \/ /\ f = "severity_overrides"
        /\ \E id \in DOMAIN fields[f].val : fields[f].val[id] \notin Severities}

\* Mutant: a file that sets any field replaces the whole object, the
\* fields it leaves out becoming empty instead of inheriting the default.
FieldValue_WholeObject(fields, field, default) ==
  IF field \in DOMAIN fields THEN fields[field].val
  ELSE IF fields = NoFields THEN default
  ELSE IF field = "enabled" THEN FALSE
  ELSE default

\* A field of the loaded config: from the file when written there, else
\* the built-in default.
FieldValue(fields, field, default) ==
  IF field \in DOMAIN fields THEN fields[field].val ELSE default

\* Mutant: one invalid custom rule invalidates the custom rules as a whole.
valid_custom_rules_AllOrNothing(raws) ==
  IF \E i \in 1..Len(raws) : validate_custom_rule(raws[i]) # {}
    THEN << >>
    ELSE [i \in 1..Len(raws) |-> build_rule(raws[i])]

\* The custom rules that pass validation, in file order.
valid_custom_rules(raws) ==
  LET ok == SelectSeq(raws, LAMBDA raw : validate_custom_rule(raw) = {})
  IN [i \in 1..Len(ok) |-> build_rule(ok[i])]

\* Errors of the custom rules of a file, each with the index of its rule.
custom_rule_errors(raws) ==
  UNION {{[code |-> e.code, field |-> e.field, rule |-> i] :
            e \in validate_custom_rule(raws[i])} : i \in 1..Len(raws)}

\* The errors recorded for the schema violations of a file.
SchemaErrors(fields) ==
  {[code |-> ConfigSchemaError, field |-> f, rule |-> 0] : f \in schema_violations(fields)}

\* Mutant: a file with a schema violation keeps the fields that are well
\* typed instead of falling back to the defaults.
Fallback_KeepsGoodFields(fields) ==
  [f \in (DOMAIN fields \cap ConfigFields) \ schema_violations(fields) |-> fields[f]]

\* The fields used after a schema violation: none, the defaults apply.
Fallback(fields) == NoFields

\* load of one file: the ValidationConfig and the load errors.  No file:
\* the defaults.  Unparseable file or schema violation: the defaults and
\* an error.  Else each field from the file or from the defaults, the
\* invalid custom rules dropped with an error each.
load_file(file) ==
  IF ~file.present
    THEN [config |-> CfgDefault, errors |-> {}]
  ELSE IF ~file.well_formed
    THEN [config |-> CfgDefault,
          errors |-> {[code |-> ConfigParseError, field |-> "", rule |-> 0]}]
  ELSE
    LET bad == schema_violations(file.fields) # {}
        fields == IF bad THEN Fallback(file.fields) ELSE file.fields
        raws == FieldValue(fields, "custom_rules", << >>)
    IN [config |->
          ValidationConfig(
            FieldValue(fields, "enabled", CfgDefault.enabled),
            FieldValue(fields, "strict_mode", CfgDefault.strict_mode),
            Range(FieldValue(fields, "allowed_paths", << >>)),
            Range(FieldValue(fields, "disabled_rules", << >>)),
            FieldValue(fields, "severity_overrides", NoOverrides),
            valid_custom_rules(raws)),
        errors |-> (IF bad THEN SchemaErrors(file.fields) ELSE {})
                   \cup custom_rule_errors(raws)]

\* A custom rule as written in a file, every field given.
RawRule(r, name, tools) ==
  [rule_id |-> JStr(r.rule_id), name |-> JStr(name), description |-> JStr(name),
   pattern |-> JStr(r.pattern), pattern_type |-> JStr(r.pattern_type),
   severity |-> JStr(r.severity), priority |-> JStr(r.priority),
   tool_types |-> JList(tools), context |-> JStr(r.context),
   message |-> JStr(r.message), suggestions |-> JList(r.suggestions),
   category |-> JStr(r.category), enabled |-> JBool(r.enabled)]

\* raw without the given fields, and raw with one field rewritten.
Omit(raw, fields) == [f \in DOMAIN raw \ fields |-> raw[f]]
Put(raw, field, value) ==
  [f \in DOMAIN raw \cup {field} |-> IF f = field THEN value ELSE raw[f]]

OptionalRuleFields == RuleFields \ RequiredRuleFields

\* Valid custom rules.
RawNoRm == RawRule(CustomNoRm, "no rm in scripts", <<"bash", "write", "edit">>)

\* Takes the id of a built-in rule, with a narrower pattern and a lower severity.
CustomCollide ==
  Rule("bash-rm-rf-root", <<{"rm"}, {"-rf"}, {"/"}, {"etc"}>>, "regex", "LOW", "P3",
       {"bash"}, "command", "rm -rf below /etc", <<"ask the operator">>, "custom", TRUE)

RawCollide == RawRule(CustomCollide, "rm in etc", <<"bash">>)

\* Only the required fields: every optional field takes its default.
CustomWriteOnly ==
  Rule("write-no-rm", <<{"rm"}, {"-rf"}>>, "regex", "MEDIUM", "P2", {"write"}, "all",
       "rm -rf in a written file", << >>, "custom", TRUE)

RawWriteOnly == Omit(RawRule(CustomWriteOnly, "no rm in files", <<"write">>), OptionalRuleFields)

\* Switched off by its own enabled flag.
CustomSwitchedOff ==
  Rule("no-tmp", <<{"/"}, {"tmp"}>>, "regex", "HIGH", "P1", {"bash", "write"}, "all",
       "no work below /tmp", << >>, "custom", FALSE)

RawSwitchedOff == RawRule(CustomSwitchedOff, "no tmp", <<"bash", "write">>)

\* Invalid custom rules: a regex that does not compile (under the id of a
\* built-in), a missing required field, an ill-typed field, a bad enum value.
RawBadRegex ==
  RawRule(Rule("bash-curl-data-exfil", <<{"curl"}, {}>>, "regex", "LOW", "P3", {"bash"},
               "command", "curl", << >>, "custom", TRUE),
          "curl", <<"bash">>)

RawMissing == Omit(Put(RawNoRm, "rule_id", JStr("no-message")), {"message"})

RawIllTyped ==
  Put(Put(RawNoRm, "rule_id", JStr("ill-typed")), "tool_types", JStr("bash"))

RawBadEnum ==
  Put(Put(RawNoRm, "rule_id", JStr("bad-enum")), "severity", JStr("SEVERE"))

InvalidRuleIds == {"no-message", "ill-typed", "bad-enum"}

\* A file that sets all six fields, every custom rule valid.
FullFields ==
  [enabled |-> JBool(FALSE), strict_mode |-> JBool(TRUE),
   allowed_paths |-> JList(<<GlobTests>>),
   disabled_rules |-> JList(<<"bash-deprecated-command">>),
   severity_overrides |-> JMap([id \in {"bash-curl-data-exfil"} |-> "HIGH"]),
   custom_rules |-> JList(<<RawCollide, RawWriteOnly>>)]

\* The fields of a file restricted to some of them.
Restrict(fields, S) == [f \in DOMAIN fields \cap S |-> fields[f]]

FileEmpty == ConfigFile(TRUE, TRUE, NoFields)

FileStrict == ConfigFile(TRUE, TRUE, Restrict(FullFields, {"strict_mode"}))

FileTuning ==
  ConfigFile(TRUE, TRUE,
    [disabled_rules |-> JList(<<"bash-deprecated-command">>),
     severity_overrides |-> JMap([id \in {"bash-curl-data-exfil"} |-> "HIGH"]),
     custom_rules |-> JList(<<RawCollide, RawWriteOnly, RawSwitchedOff>>)])

FileSomeInvalid ==
  ConfigFile(TRUE, TRUE,
    [strict_mode |-> JBool(TRUE),
     disabled_rules |-> JList(<<"bash-deprecated-command">>),
     custom_rules |-> JList(<<RawNoRm, RawBadRegex, RawCollide, RawMissing, RawWriteOnly>>)])

FileInvalidRules ==
  ConfigFile(TRUE, TRUE,
    [allowed_paths |-> JList(<<GlobTests>>),
     custom_rules |-> JList(<<RawIllTyped, RawBadEnum, RawSwitchedOff>>)])

FileMalformed == ConfigFile(TRUE, FALSE, NoFields)

FileBadType ==
  ConfigFile(TRUE, TRUE, [enabled |-> JBool(FALSE), strict_mode |-> JStr("yes")])

FileBadEnum ==
  ConfigFile(TRUE, TRUE,
    [strict_mode |-> JBool(TRUE),
     severity_overrides |-> JMap([id \in {"bash-curl-data-exfil"} |-> "SEVERE"])])

ConfigFiles ==
  {NoFile, FileEmpty, FileTuning, FileSomeInvalid, FileInvalidRules, FileMalformed,
   FileBadType, FileBadEnum}

\* ------------------------------------------------------------------ invocations

\* A tool invocation: command (bash), content + path (write/edit), url or
\* query (web_fetch/web_search); an absent part is the empty text.  path is
\* the path the invocation targets: the file written or edited, and for a
\* bash command its file operand.
ToolInvocation(tool, cmd, content, path, url) ==
  [tool_type |-> tool, command |-> cmd, content |-> content, path |-> path,
   url |-> url]

PathEtc == <<"/", "etc">>
PathTmpX == <<"/", "tmp", "/", "x">>
PathDanger == <<"tests", "/", "fixtures", "/", "danger.sh">>
PathPasswd == <<"/", "etc", "/", "passwd">>

RmEtc == ToolInvocation("bash", <<"rm", "-rf">> \o PathEtc, NoText, PathEtc, NoText)

RmTmpX == ToolInvocation("bash", <<"rm", "-rf">> \o PathTmpX, NoText, PathTmpX, NoText)

CurlPost ==
  ToolInvocation("bash", <<"curl", "-X", "POST", "https://x/y", "-d", "@data.json">>,
                 NoText, NoText, NoText)

TelnetRm ==
  ToolInvocation("bash", <<"telnet", "h", ";", "rm", "-rf">> \o PathEtc, NoText,
                 PathEtc, NoText)

WriteDanger ==
  ToolInvocation("write", NoText, <<"rm", "-rf", "/">>, PathDanger, NoText)

WritePasswd ==
  ToolInvocation("edit", NoText, <<"password", "=", "x">>, PathPasswd, NoText)

FetchFile ==
  ToolInvocation("web_fetch", NoText, NoText, NoText, <<"file://", "/", "etc", "/", "passwd">>)

SearchRm ==
  ToolInvocation("web_search", NoText, NoText, NoText, <<"rm", "-rf", "/">>)

\* The tool calls the agent of the modelled session attempts.
Invocations == {RmTmpX, CurlPost, TelnetRm, WriteDanger}

\* All invocations the pure functions are evaluated on.
AllInvocations == Invocations \cup {RmEtc, WritePasswd, FetchFile, SearchRm}

NoInvocation == ToolInvocation("none", NoText, NoText, NoText, NoText)

\* The texts a rule of the given context is matched against.
ContextTexts(inv, ctx) ==
  CASE ctx = "command" -> {inv.command}
    [] ctx = "file_content" -> {inv.content}
    [] ctx = "file_path" -> {inv.path}
    [] OTHER -> {inv.command, inv.content, inv.path, inv.url}

\* The pattern of rule r is found in the context r looks at: literal is a
\* case-insensitive substring match, regex a search.
PatternFires(r, inv) ==
  \E text \in ContextTexts(inv, r.context) :
    /\ text # NoText
    /\ PatternSearch(text, r.pattern, r.pattern_type = "literal")

\* ------------------------------------------------------------------ tokens

NoExpiry == -1

NoToken == 0

Scope(kind, glob, pattern) == [kind |-> kind, glob |-> glob, pattern |-> pattern]

ScopeAll == Scope("all", << >>, << >>)
ScopeFile(glob) == Scope("file", glob, << >>)
ScopeCommand(pattern) == Scope("command", << >>, pattern)

\* Mutant: the expiry is counted from the start of the clock, not from the
\* time of creation.
NewToken_ExpiryFromZero(id, rule_id, scope, expiry_minutes, max_uses, reason, t) ==
  [token_id |-> id, rule_id |-> rule_id, scope |-> scope,
   expires_at |-> IF expiry_minutes = 0 THEN NoExpiry ELSE expiry_minutes,
   max_uses |-> max_uses, use_count |-> 0, reason |-> reason]

\* expires_at = now + expiry_minutes, unless expiry_minutes = 0 (never).
\* created_at and creator are written once and never read; the model
\* leaves them out.
NewToken(id, rule_id, scope, expiry_minutes, max_uses, reason, t) ==
  [token_id |-> id, rule_id |-> rule_id, scope |-> scope,
   expires_at |-> IF expiry_minutes = 0 THEN NoExpiry ELSE t + expiry_minutes,
   max_uses |-> max_uses, use_count |-> 0, reason |-> reason]

\* Mutant: a token is still valid at the minute it expires.
TokenValid_AtExpiry(tok, t) ==
  /\ (tok.expires_at = NoExpiry \/ t <= tok.expires_at)
  /\ (tok.max_uses = 0 \/ tok.use_count < tok.max_uses)

\* Unexpired and not exhausted at time t.
TokenValid(tok, t) ==
  /\ (tok.expires_at = NoExpiry \/ t < tok.expires_at)
  /\ (tok.max_uses = 0 \/ tok.use_count < tok.max_uses)

\* Mutant: a command scope is searched in whatever text the invocation has.
ScopeMatches_AnyTool(scope, inv) ==
  CASE scope.kind = "all" -> TRUE
    [] scope.kind = "file" -> inv.path # NoText /\ GlobMatch(scope.glob, inv.path)
    [] scope.kind = "command" ->
         \E text \in {inv.command, inv.content, inv.url} :
           ContainsLiteral(text, scope.pattern)
    [] OTHER -> FALSE

\* Scope of a token against an invocation.
ScopeMatches(scope, inv) ==
  CASE scope.kind = "all" -> TRUE
    [] scope.kind = "file" -> inv.path # NoText /\ GlobMatch(scope.glob, inv.path)
    [] scope.kind = "command" ->
         inv.tool_type = "bash" /\ ContainsLiteral(inv.command, scope.pattern)
    [] OTHER -> FALSE

\* Scan of the stored tokens, in file order: the id of the first token for
\* the rule that is valid and whose scope matches, NoToken if there is none.
RECURSIVE FindFrom(_, _, _, _, _)
FindFrom(toks, i, rule_id, inv, t) ==
  IF i > Len(toks) THEN NoToken
  ELSE IF /\ toks[i].rule_id = rule_id
          /\ TokenValid(toks[i], t)
          /\ ScopeMatches(toks[i].scope, inv)
       THEN toks[i].token_id
  ELSE FindFrom(toks, i + 1, rule_id, inv, t)

find_applicable(toks, rule_id, inv, t) == FindFrom(toks, 1, rule_id, inv, t)

\* Mutant: the use is not recorded.
consume_NoIncrement(toks, id) == toks

\* Mutant: every token of the same rule is charged with the use.
consume_EveryTokenOfRule(toks, id) ==
  [i \in 1..Len(toks) |->
     IF \E j \in 1..Len(toks) : toks[j].token_id = id /\ toks[j].rule_id = toks[i].rule_id
       THEN [toks[i] EXCEPT !.use_count = @ + 1]
       ELSE toks[i]]

\* The store after one use of the token: its use_count is incremented.
consume(toks, id) ==
  [i \in 1..Len(toks) |->
     IF toks[i].token_id = id
       THEN [toks[i] EXCEPT !.use_count = @ + 1]
       ELSE toks[i]]

\* ------------------------------------------------------------------ validator

Decision(d, matched, sev, msgs, suggs, used, reason, stages) ==
  [decision |-> d, matched_rules |-> matched, severity |-> sev, message |-> msgs,
   suggestions |-> suggs, override_token_ids |-> used, reason |-> reason,
   stages |-> stages]

NoDecision == Decision("none", << >>, NoSeverity, << >>, << >>, << >>, "none", << >>)

\* Rules that would fire on the invocation: active for its tool type and
\* with the pattern found in the context.
FiringRules(rs, inv) ==
  SelectSeq(get_active_rules(rs, inv.tool_type), LAMBDA r : PatternFires(r, inv))

\* Override stage: for each rule that would fire, in rule order, look for
\* an applicable token; on a hit consume it and exclude the rule.
RECURSIVE OverrideStage(_, _, _, _, _)
OverrideStage(cands, i, inv, toks, t) ==
  IF i > Len(cands)
    THEN [tokens |-> toks, overridden |-> {}, used |-> << >>]
    ELSE LET id == find_applicable(toks, cands[i].rule_id, inv, t)
             rest == OverrideStage(cands, i + 1, inv,
                                   IF id = NoToken THEN toks ELSE consume(toks, id), t)
         IN IF id = NoToken
              THEN rest
              ELSE [tokens |-> rest.tokens,
                    overridden |-> {cands[i].rule_id} \cup rest.overridden,
                    used |-> <<id>> \o rest.used]

\* Mutant: strict mode switches the path exemption off.
PathExempt_NotInStrict(cfg, inv) ==
  /\ ~cfg.strict_mode
  /\ inv.path # NoText
  /\ \E g \in cfg.allowed_paths : GlobMatch(g, inv.path)

\* Path-exemption stage: the target path matches an allowed_paths glob.
PathExempt(cfg, inv) ==
  /\ inv.path # NoText
  /\ \E g \in cfg.allowed_paths : GlobMatch(g, inv.path)

\* Maximum severity among the fired rules.
MaxSeverity(fired) ==
  IF fired = << >> THEN NoSeverity
  ELSE LET sevs == {fired[i].severity : i \in 1..Len(fired)}
       IN CHOOSE s \in sevs : \A u \in sevs : SevRank(u) <= SevRank(s)

\* Mutant: only CRITICAL blocks outside strict mode.
Aggregate_HighWarns(fired, strict) ==
  IF fired = << >> THEN "allowed"
  ELSE IF SevRank(MaxSeverity(fired)) >= SevRank("CRITICAL") THEN "blocked"
  ELSE IF strict THEN "blocked"
  ELSE "warned"

\* Mutant: strict mode escalates MEDIUM only, LOW stays a warning.
Aggregate_StrictSkipsLow(fired, strict) ==
  IF fired = << >> THEN "allowed"
  ELSE IF SevRank(MaxSeverity(fired)) >= SevRank("HIGH") THEN "blocked"
  ELSE IF strict /\ MaxSeverity(fired) = "MEDIUM" THEN "blocked"
  ELSE "warned"

\* Aggregation: no rule fired -> allowed; CRITICAL/HIGH -> blocked;
\* MEDIUM/LOW -> warned, or blocked in strict mode.
Aggregate(fired, strict) ==
  IF fired = << >> THEN "allowed"
  ELSE IF SevRank(MaxSeverity(fired)) >= SevRank("HIGH") THEN "blocked"
  ELSE IF strict THEN "blocked"
  ELSE "warned"

RECURSIVE Concat(_)
Concat(ss) == IF ss = << >> THEN << >> ELSE Head(ss) \o Concat(Tail(ss))

\* Mutant: one override hit clears every rule (a global bypass).
RemainingRules_AnyHitClearsAll(cands, overridden) ==
  IF overridden # {} THEN << >> ELSE cands

\* The rules left for the pattern stage: those no token overrode.
RemainingRules(cands, overridden) ==
  SelectSeq(cands, LAMBDA r : r.rule_id \notin overridden)

\* Stage 1 outcome when validation is switched off.
DisabledResult(toks) ==
  [decision |-> Decision("allowed", << >>, NoSeverity, << >>, << >>, << >>,
                         "disabled", <<"enabled">>),
   tokens |-> toks]

\* Mutant: only the rules of the highest severity are reported.
RunPipeline_TopRuleOnly(inv, cfg, rs, toks, t) ==
  LET cands == FiringRules(rs, inv)
      ov == OverrideStage(cands, 1, inv, toks, t)
      all_fired == RemainingRules(cands, ov.overridden)
      fired == SelectSeq(all_fired, LAMBDA r : r.severity = MaxSeverity(all_fired))
  IN IF PathExempt(cfg, inv)
       THEN [decision |-> Decision("allowed", << >>, NoSeverity, << >>, << >>,
                                   ov.used, "path-exempt",
                                   <<"enabled", "override", "paths">>),
             tokens |-> ov.tokens]
       ELSE [decision |->
               Decision(Aggregate(fired, cfg.strict_mode),
                        [i \in 1..Len(fired) |-> fired[i].rule_id],
                        MaxSeverity(fired),
                        [i \in 1..Len(fired) |-> fired[i].message],
                        Concat([i \in 1..Len(fired) |-> fired[i].suggestions]),
                        ov.used,
                        IF fired # << >> THEN "pattern"
                        ELSE IF ov.used # << >> THEN "override"
                        ELSE "no-match",
                        <<"enabled", "override", "paths", "pattern", "aggregate">>),
             tokens |-> ov.tokens]

\* Mutant: the allowed paths are checked before the override tokens, so an
\* exempt invocation never reaches the override stage.
RunPipeline_PathsFirst(inv, cfg, rs, toks, t) ==
  LET cands == FiringRules(rs, inv)
      ov == OverrideStage(cands, 1, inv, toks, t)
      fired == RemainingRules(cands, ov.overridden)
  IN IF PathExempt(cfg, inv)
       THEN [decision |-> Decision("allowed", << >>, NoSeverity, << >>, << >>,
                                   << >>, "path-exempt", <<"enabled", "paths">>),
             tokens |-> toks]
       ELSE [decision |->
               Decision(Aggregate(fired, cfg.strict_mode),
                        [i \in 1..Len(fired) |-> fired[i].rule_id],
                        MaxSeverity(fired),
                        [i \in 1..Len(fired) |-> fired[i].message],
                        Concat([i \in 1..Len(fired) |-> fired[i].suggestions]),
                        ov.used,
                        IF fired # << >> THEN "pattern"
                        ELSE IF ov.used # << >> THEN "override"
                        ELSE "no-match",
                        <<"enabled", "paths", "override", "pattern", "aggregate">>),
             tokens |-> ov.tokens]

\* Stages 2 to 5: override tokens, path exemption, patterns, aggregation.
RunPipeline(inv, cfg, rs, toks, t) ==
  LET cands == FiringRules(rs, inv)
      ov == OverrideStage(cands, 1, inv, toks, t)
      fired == RemainingRules(cands, ov.overridden)
  IN IF PathExempt(cfg, inv)
       THEN [decision |-> Decision("allowed", << >>, NoSeverity, << >>, << >>,
                                   ov.used, "path-exempt",
                                   <<"enabled", "override", "paths">>),
             tokens |-> ov.tokens]
       ELSE [decision |->
               Decision(Aggregate(fired, cfg.strict_mode),
                        [i \in 1..Len(fired) |-> fired[i].rule_id],
                        MaxSeverity(fired),
                        [i \in 1..Len(fired) |-> fired[i].message],
                        Concat([i \in 1..Len(fired) |-> fired[i].suggestions]),
                        ov.used,
                        IF fired # << >> THEN "pattern"
                        ELSE IF ov.used # << >> THEN "override"
                        ELSE "no-match",
                        <<"enabled", "override", "paths", "pattern", "aggregate">>),
             tokens |-> ov.tokens]

\* Mutant: the enabled flag is not looked at.
validate_IgnoresEnabled(inv, cfg, rs, toks, t) == RunPipeline(inv, cfg, rs, toks, t)

\* validate(invocation): the decision and the token store it leaves.
validate(inv, cfg, rs, toks, t) ==
  IF ~cfg.enabled
    THEN DisabledResult(toks)
    ELSE RunPipeline(inv, cfg, rs, toks, t)

\* The event recorded for a decision.
ValidationEvent(inv, d) ==
  [tool_type |-> inv.tool_type, matched_rules |-> d.matched_rules,
   severity |-> d.severity, decision |-> d.decision,
   override_token_id |->
     IF d.override_token_ids = << >> THEN NoToken ELSE Head(d.override_token_ids)]

\* ------------------------------------------------------------------ state

VARIABLES
  config,      \* the ValidationConfig loaded for the project
  tokens,      \* override-tokens.json: the stored tokens, in file order
  next_id,     \* generator of fresh token ids
  now,         \* the clock, in minutes
  log,         \* the session's event log
  phase,       \* the current tool call: idle, decided, running, aborted
  call,        \* the invocation of the current tool call
  decision     \* the decision validate returned for it

\* Concurrent access to override-tokens.json by the sessions of one project
\* and by the command line.
VARIABLES
  lock,        \* holder of the file lock, or NoProc
  pc,          \* per process: idle, waiting, locked (lock held), staged (change in memory)
  op,          \* per process: the store operation in progress
  mem,         \* per process: the token list loaded and changed in memory
  outcome,     \* per process: what the last operation returned to its caller
  hist,        \* completed operations: tokens generated, ids revoked, uses per id
  ops          \* number of operations issued so far

\* The effective rule set of each configuration, built once when the
\* configuration is loaded and passed to the validator from then on.
RulesOf == [cfg \in Configs |-> merge_with_defaults(cfg, BuiltinRules)]

EffectiveRules == RulesOf[config]

\* Internal faults of the validator, and the report of the session.
VARIABLES
  faults_logged,  \* number of internal faults written to the fault log
  report          \* the report generated from the events, NoReport before

\* The config loader: the config files on disk and the per-project cache.
VARIABLES
  files,       \* per project: its output-validation config file
  cache,       \* per project: the cached result of load, or NoEntry
  last_op      \* the last call on the loader: load, clear or probe, and its project

loaderVars == <<files, cache, last_op>>

\* The anomaly-fix IPC handlers of the main process.
VARIABLES
  fixStates,    \* fixId -> AnomalyFixState, or NoFix
  activeFixes,  \* the fixIds that have an entry in the map of child processes
  child,        \* per fixId: the spawned process and its events not yet delivered
  immediate,    \* fixIds whose setImmediate callback has not run yet
  sent,         \* per fixId: ANOMALY_FIX_COMPLETE and ANOMALY_FIX_ERROR messages sent
  window_open,  \* the main window exists and is not destroyed
  next_fix      \* number of fixes started so far

fixVars == <<fixStates, activeFixes, child, immediate, sent, window_open, next_fix>>

\* The useMemoryGraph hook of one mounted component.
VARIABLES
  projectId,    \* the projectId prop of the latest render
  graphData,    \* useState: the graph shown, or NoGraph (null)
  loading,      \* useState
  error,        \* useState: an error message is set
  cacheRef,     \* useRef: project ids with cached data
  fetchingRef,  \* useRef: project ids whose getGraphData call has not settled yet
  effect_due    \* the effect on [projectId] has been scheduled and not run

graphVars == <<projectId, graphData, loading, error, cacheRef, fetchingRef, effect_due>>

extVars == <<fixVars, graphVars>>

guardVars == <<config, tokens, next_id, now, log, phase, call, decision>>

storeVars == <<lock, pc, op, mem, outcome, hist, ops>>

sideVars == <<faults_logged, report, loaderVars, extVars>>

vars == <<guardVars, storeVars, sideVars>>

\* Requests the management surface issues: rule, scope, expiry, max uses.
TokenRequest(rule_id, scope, expiry_minutes, max_uses, reason) ==
  [rule_id |-> rule_id, scope |-> scope, expiry_minutes |-> expiry_minutes,
   max_uses |-> max_uses, reason |-> reason]

GlobTmpX == <<Lit("/"), Lit("tmp"), Lit("/"), Lit("x")>>

TokenRequests == {
  TokenRequest("bash-rm-rf-root", ScopeFile(GlobTmpX), 0, 1, "cleanup test"),
  TokenRequest("bash-rm-rf-root", ScopeAll, 1, 0, "emergency repair"),
  TokenRequest("no-rm-in-scripts", ScopeCommand(<<"rm", "-rf">>), 0, 2, "cleanup script") }

\* Processes working on the token file of one project: two agent sessions
\* and the command line of the management surface.
Sessions == {"s1", "s2"}

Cli == "cli"

Procs == Sessions \cup {Cli}

NoProc == "none"

NoRequest == TokenRequest("", ScopeAll, 0, 0, "")

\* A store operation: validate (find_applicable and consume for one
\* invocation), generate, revoke or list.
StoreOp(kind, inv, req, token_id) ==
  [kind |-> kind, inv |-> inv, req |-> req, token_id |-> token_id]

NoOp == StoreOp("none", NoInvocation, NoRequest, NoToken)

\* What an operation returns: a status, and the decision (validate), the
\* token id (generate, revoke) or the listed tokens (list).
Outcome(status, d, token_id, listed) ==
  [status |-> status, decision |-> d, token_id |-> token_id, listed |-> listed]

NoOutcome == Outcome("none", NoDecision, NoToken, << >>)

NoHistory == [generated |-> {}, revoked |-> {}, consumed |-> << >>]

NoReport == [generated |-> FALSE]

Projects == {"projA", "projB"}

AllProjects == "all"

\* A cache entry: the config, the effective rule set built from it once,
\* and the errors of the load.
NoEntry == [loaded |-> FALSE]

Entry(cfg, rs, errors) == [loaded |-> TRUE, config |-> cfg, rules |-> rs, errors |-> errors]

LoaderOp(kind, project) == [kind |-> kind, project |-> project]

NoLoaderOp == LoaderOp("none", AllProjects)

\* No config file exists and nothing is cached.
LoaderIdle ==
  /\ files = [p \in Projects |-> NoFile]
  /\ cache = [p \in Projects |-> NoEntry]
  /\ last_op = NoLoaderOp

\* Ids of anomaly fixes (uuids in the code), in the order they are made.
FixIds == 1..MaxFixes

NoFix == [exists |-> FALSE]

\* AnomalyFixState: status, endTime set or not, number of log entries,
\* result and error set or not.
AnomalyFixState(status, ended, logs, result, err) ==
  [exists |-> TRUE, status |-> status, ended |-> ended, logs |-> logs,
   result |-> result, error |-> err]

\* A child process: spawned or not, alive, sent SIGTERM, and the events it
\* has emitted that the event loop has not delivered yet.
ChildProcess(spawned, alive, killed, events) ==
  [spawned |-> spawned, alive |-> alive, killed |-> killed, events |-> events]

NoChild == ChildProcess(FALSE, FALSE, FALSE, << >>)

NothingSent == [complete |-> 0, error |-> 0]

\* No fix has been started.
FixIdle ==
  /\ fixStates = [f \in FixIds |-> NoFix]
  /\ activeFixes = {}
  /\ child = [f \in FixIds |-> NoChild]
  /\ immediate = {}
  /\ sent = [f \in FixIds |-> NothingSent]
  /\ window_open = TRUE
  /\ next_fix = 0

\* The empty project id, and the state of the hook before its first render.
NoProject == ""

NoGraph == [project |-> NoProject, loaded |-> FALSE]

GraphIdle ==
  /\ projectId = NoProject
  /\ graphData = NoGraph
  /\ loading = TRUE
  /\ error = FALSE
  /\ cacheRef = {}
  /\ fetchingRef = {}
  /\ effect_due = FALSE

\* No fault has occurred, no report has been generated, nothing is loaded,
\* no fix is running and no graph is shown.
SideIdle ==
  /\ faults_logged = 0
  /\ report = NoReport
  /\ LoaderIdle
  /\ FixIdle
  /\ GraphIdle

\* No process is working on the token file.
StoreIdle ==
  /\ lock = NoProc
  /\ pc = [p \in Procs |-> "idle"]
  /\ op = [p \in Procs |-> NoOp]
  /\ mem = [p \in Procs |-> << >>]
  /\ outcome = [p \in Procs |-> NoOutcome]
  /\ hist = NoHistory
  /\ ops = 0

Init ==
  /\ config \in Configs
  /\ tokens = << >>
  /\ next_id = 1
  /\ now = 0
  /\ log = << >>
  /\ phase = "idle"
  /\ call = NoInvocation
  /\ decision = NoDecision
  /\ StoreIdle
  /\ SideIdle

\* Mutant: only warned and blocked decisions are written to the event log.
Validate_LogsFindingsOnly(inv) ==
  /\ phase \in {"idle", "running", "aborted"}
  /\ Len(log) < MaxEvents
  /\ LET res == validate(inv, config, EffectiveRules, tokens, now)
     IN /\ tokens' = res.tokens
        /\ decision' = res.decision
        /\ log' = IF res.decision.decision = "allowed"
                    THEN log
                    ELSE Append(log, ValidationEvent(inv, res.decision))
  /\ call' = inv
  /\ phase' = "decided"
  /\ UNCHANGED <<config, next_id, now>>
  /\ UNCHANGED <<storeVars, sideVars>>

\* The agent attempts a tool call and the pre-tool-use hook validates it:
\* tokens are consumed, the decision is returned and one event is logged.
Validate(inv) ==
  /\ phase \in {"idle", "running", "aborted"}
  /\ Len(log) < MaxEvents
  /\ LET res == validate(inv, config, EffectiveRules, tokens, now)
     IN /\ tokens' = res.tokens
        /\ decision' = res.decision
        /\ log' = Append(log, ValidationEvent(inv, res.decision))
  /\ call' = inv
  /\ phase' = "decided"
  /\ UNCHANGED <<config, next_id, now>>
  /\ UNCHANGED <<storeVars, sideVars>>

\* Mutant: the runtime runs the call whatever the decision.
Execute_AnyDecision ==
  /\ phase = "decided"
  /\ phase' = "running"
  /\ UNCHANGED <<config, tokens, next_id, now, log, call, decision>>
  /\ UNCHANGED <<storeVars, sideVars>>

\* The runtime runs a call decided allowed or warned.
Execute ==
  /\ phase = "decided"
  /\ decision.decision \in {"allowed", "warned"}
  /\ phase' = "running"
  /\ UNCHANGED <<config, tokens, next_id, now, log, call, decision>>
  /\ UNCHANGED <<storeVars, sideVars>>

\* The runtime aborts a call decided blocked.  (Execute and Abort touch
\* phase only, so nothing else is interleaved between decision and them.)
Abort ==
  /\ phase = "decided"
  /\ decision.decision = "blocked"
  /\ phase' = "aborted"
  /\ UNCHANGED <<config, tokens, next_id, now, log, call, decision>>
  /\ UNCHANGED <<storeVars, sideVars>>

\* generate: a new token is appended to the token file.
Generate(req) ==
  /\ phase # "decided"
  /\ next_id <= MaxTokens
  /\ tokens' = Append(tokens, NewToken(next_id, req.rule_id, req.scope,
                                       req.expiry_minutes, req.max_uses,
                                       req.reason, now))
  /\ next_id' = next_id + 1
  /\ UNCHANGED <<config, now, log, phase, call, decision>>
  /\ UNCHANGED <<storeVars, sideVars>>

\* One minute passes.
Tick ==
  /\ phase # "decided"
  /\ now < MaxTime
  /\ now' = now + 1
  /\ UNCHANGED <<config, tokens, next_id, log, phase, call, decision>>
  /\ UNCHANGED <<storeVars, sideVars>>

Next ==
  \/ \E inv \in Invocations : Validate(inv)
  \/ Execute
  \/ Abort
  \/ \E req \in TokenRequests : Generate(req)
  \/ Tick

Spec == Init /\ [][Next]_vars

\* ------------------------------------------------------------------ internal faults

\* Where in the pipeline an internal fault hits: in the override stage,
\* before any token is consumed, or in the pattern stage, after the
\* override stage has consumed its tokens.
FaultStages == {"override", "pattern"}

\* Mutant: a faulted validation lets the invocation through.
FaultDecision_FailOpen(used, stages) ==
  Decision("allowed", << >>, NoSeverity, << >>, << >>, used, "internal-fault", stages)

\* Fail closed: the decision of a validation hit by an internal fault.
FaultDecision(used, stages) ==
  Decision("warned", << >>, NoSeverity, <<"internal validator error">>, << >>, used,
           "internal-fault", stages)

\* validate when an internal fault hits in that stage: the tokens consumed
\* before the fault stay consumed, the decision is the fail-closed one.
validate_faulted(inv, cfg, rs, toks, t, stage) ==
  IF stage = "override"
    THEN [decision |-> FaultDecision(<< >>, <<"enabled", "override">>),
          tokens |-> toks]
    ELSE LET ov == OverrideStage(FiringRules(rs, inv), 1, inv, toks, t)
         IN [decision |-> FaultDecision(ov.used, <<"enabled", "override", "paths",
                                                   "pattern">>),
             tokens |-> ov.tokens]

\* A tool call whose validation is hit by an internal fault: the fault is
\* written to the fault log, a decision is returned all the same and one
\* event is logged.  (With validation switched off no stage runs.)
ValidateFaulted(inv, stage) ==
  /\ phase \in {"idle", "running", "aborted"}
  /\ Len(log) < MaxEvents
  /\ faults_logged < MaxFaults
  /\ config.enabled
  /\ LET res == validate_faulted(inv, config, EffectiveRules, tokens, now, stage)
     IN /\ tokens' = res.tokens
        /\ decision' = res.decision
        /\ log' = Append(log, ValidationEvent(inv, res.decision))
  /\ call' = inv
  /\ phase' = "decided"
  /\ faults_logged' = faults_logged + 1
  /\ UNCHANGED <<config, next_id, now, report, loaderVars, extVars>>
  /\ UNCHANGED storeVars

\* The session with internal faults; the clock stands still, a fault does
\* not depend on the time.
NextFault ==
  \/ \E inv \in Invocations : Validate(inv)
  \/ \E inv \in Invocations : \E stage \in FaultStages : ValidateFaulted(inv, stage)
  \/ Execute
  \/ Abort
  \/ \E req \in TokenRequests : Generate(req)

SpecFault == Init /\ [][NextFault]_vars

\* ------------------------------------------------------------------ report

\* Rule ids in ascending (byte) order, and the place of an id in it.
RuleIdsAscending ==
  <<"bash-curl-data-exfil", "bash-deprecated-command", "bash-rm-rf-root",
    "no-rm-in-scripts", "path-system-directory-write", "web-fetch-local-file",
    "write-password-pattern">>

IdRank(id) == CHOOSE i \in 1..Len(RuleIdsAscending) : RuleIdsAscending[i] = id

\* The rule ids the events of that decision cite, in event order.
CitedRules(events, d) ==
  Concat([i \in 1..Len(events) |->
            IF events[i].decision = d THEN events[i].matched_rules ELSE << >>])

\* Groups by rule id with their counts, in order of first appearance.
RECURSIVE Tally(_, _)
Tally(ids, groups) ==
  IF ids = << >> THEN groups
  ELSE LET id == Head(ids)
           at == {k \in 1..Len(groups) : groups[k].rule_id = id}
       IN IF at = {}
            THEN Tally(Tail(ids), Append(groups, [rule_id |-> id, count |-> 1]))
            ELSE Tally(Tail(ids), [k \in 1..Len(groups) |->
                                     IF k \in at
                                       THEN [groups[k] EXCEPT !.count = @ + 1]
                                       ELSE groups[k]])

\* Mutant: groups are ordered by count alone.
GroupBefore_CountOnly(a, b) == a.count > b.count

\* Order of the groups: descending count, then ascending rule id.
GroupBefore(a, b) ==
  \/ a.count > b.count
  \/ a.count = b.count /\ IdRank(a.rule_id) < IdRank(b.rule_id)

\* Stable insertion of a group into a sorted list of groups.
RECURSIVE InsertGroup(_, _)
InsertGroup(g, sorted) ==
  IF sorted = << >> THEN <<g>>
  ELSE IF GroupBefore(g, Head(sorted)) THEN <<g>> \o sorted
  ELSE <<Head(sorted)>> \o InsertGroup(g, Tail(sorted))

RECURSIVE SortGroups(_)
SortGroups(groups) ==
  IF groups = << >> THEN << >>
  ELSE InsertGroup(groups[Len(groups)], SortGroups(SubSeq(groups, 1, Len(groups) - 1)))

\* Number of events with that value in that field.
CountField(events, field, value) ==
  Cardinality({i \in 1..Len(events) : events[i][field] = value})

\* generate(events): summary, blocked operations and warnings grouped by
\* rule, per-tool and per-severity breakdown.  (Examples and the table of
\* token usages are left out: the events of the model carry no snippet.)
generate(events) ==
  [generated |-> TRUE,
   summary |-> [total |-> Len(events),
                blocked |-> CountField(events, "decision", "blocked"),
                warnings |-> CountField(events, "decision", "warned"),
                allowed |-> CountField(events, "decision", "allowed"),
                overrides_used |->
                  Len(events) - CountField(events, "override_token_id", NoToken)],
   blocked |-> SortGroups(Tally(CitedRules(events, "blocked"), << >>)),
   warnings |-> SortGroups(Tally(CitedRules(events, "warned"), << >>)),
   by_tool |-> [tool \in ToolTypes |-> CountField(events, "tool_type", tool)],
   by_severity |-> [sev \in Severities |-> CountField(events, "severity", sev)]]

Event(tool, matched, sev, d, token_id) ==
  [tool_type |-> tool, matched_rules |-> matched, severity |-> sev, decision |-> d,
   override_token_id |-> token_id]

\* Events a session hands to the report generator.
ReportEvents == {
  Event("bash", <<"bash-rm-rf-root">>, "CRITICAL", "blocked", NoToken),
  Event("bash", <<"bash-rm-rf-root", "bash-deprecated-command">>, "CRITICAL", "blocked",
        NoToken),
  Event("write", <<"no-rm-in-scripts">>, "HIGH", "blocked", NoToken),
  Event("bash", <<"bash-curl-data-exfil">>, "MEDIUM", "warned", NoToken),
  Event("bash", <<"bash-deprecated-command">>, "LOW", "warned", 1),
  Event("bash", << >>, NoSeverity, "allowed", 1) }

\* The session records the event of one more validation.
Record(e) ==
  /\ ~report.generated
  /\ Len(log) < MaxReport
  /\ log' = Append(log, e)
  /\ UNCHANGED <<config, tokens, next_id, now, phase, call, decision>>
  /\ UNCHANGED <<storeVars, sideVars>>

\* The report is generated from the events of the session.
GenerateReport ==
  /\ ~report.generated
  /\ report' = generate(log)
  /\ UNCHANGED <<guardVars, storeVars, faults_logged, loaderVars, extVars>>

InitReport ==
  /\ config = CfgDefault
  /\ tokens = << >>
  /\ next_id = 1
  /\ now = 0
  /\ log = << >>
  /\ phase = "idle"
  /\ call = NoInvocation
  /\ decision = NoDecision
  /\ StoreIdle
  /\ SideIdle

NextReport ==
  \/ \E e \in ReportEvents : Record(e)
  \/ GenerateReport

SpecReport == InitReport /\ [][NextReport]_vars

\* ------------------------------------------------------------------ token file

\* list(project_dir, rule_id?, include_expired = false): the stored tokens,
\* in file order, of the rule if one is given, the expired ones left out
\* unless asked for.
NoRule == ""

\* Mutant: a token without expiry date is taken for an expired one.
list_tokens_NullIsExpired(toks, rule_id, include_expired, t) ==
  SelectSeq(toks, LAMBDA tok :
    /\ (rule_id = NoRule \/ tok.rule_id = rule_id)
    /\ (include_expired \/ (tok.expires_at # NoExpiry /\ t < tok.expires_at)))

list_tokens(toks, rule_id, include_expired, t) ==
  SelectSeq(toks, LAMBDA tok :
    /\ (rule_id = NoRule \/ tok.rule_id = rule_id)
    /\ (include_expired \/ tok.expires_at = NoExpiry \/ t < tok.expires_at))

TokenIds(toks) == {toks[i].token_id : i \in 1..Len(toks)}

\* Mutant: revoke removes every token of the rule the named token is for.
revoke_WholeRule(toks, id) ==
  SelectSeq(toks, LAMBDA tok :
    \A i \in 1..Len(toks) : toks[i].token_id = id => tok.rule_id # toks[i].rule_id)

\* revoke: the store without the token of that id.
revoke(toks, id) == SelectSeq(toks, LAMBDA tok : tok.token_id # id)

\* Mutant: the file is taken without looking at the lock.
LockFree_NotChecked == TRUE

\* The file lock can be taken.
LockFree == lock = NoProc

\* The invocation the concurrent sessions validate.
StoreInvocations == {RmTmpX}

\* The tokens the command line generates while sessions run.
StoreRequests == {req \in TokenRequests : req.rule_id = "bash-rm-rf-root"}

\* Ids the command line asks to revoke: those that can exist and one more.
RevokeIds == 1..(MaxTokens + 1)

\* A process starts an operation on the token file and waits for the lock.
Begin(p, o) ==
  /\ pc[p] = "idle"
  /\ ops < MaxOps
  /\ pc' = [pc EXCEPT ![p] = "waiting"]
  /\ op' = [op EXCEPT ![p] = o]
  /\ outcome' = [outcome EXCEPT ![p] = NoOutcome]
  /\ ops' = ops + 1
  /\ UNCHANGED <<guardVars, sideVars, lock, mem, hist>>

\* A waiting process takes the file lock once it is free.
Acquire(p) ==
  /\ pc[p] = "waiting"
  /\ LockFree
  /\ lock' = p
  /\ pc' = [pc EXCEPT ![p] = "locked"]
  /\ UNCHANGED <<guardVars, sideVars, op, mem, outcome, hist, ops>>

\* A session validates an invocation: its override stage works on the file.
BeginValidate(p, inv) == Begin(p, StoreOp("validate", inv, NoRequest, NoToken))

BeginGenerate(req) ==
  /\ next_id <= MaxTokens
  /\ Begin(Cli, StoreOp("generate", NoInvocation, req, NoToken))

BeginRevoke(id) == Begin(Cli, StoreOp("revoke", NoInvocation, NoRequest, id))

BeginList == Begin(Cli, StoreOp("list", NoInvocation, NoRequest, NoToken))

\* The token list the operation of p leaves in memory, and what it returns,
\* from the list cur it loaded.
Applied(p, cur) ==
  LET o == op[p]
  IN CASE o.kind = "validate" ->
            LET res == validate(o.inv, config, EffectiveRules, cur, now)
            IN [tokens |-> res.tokens,
                outcome |-> Outcome("ok", res.decision, NoToken, << >>)]
       [] o.kind = "generate" ->
            [tokens |-> Append(cur, NewToken(next_id, o.req.rule_id, o.req.scope,
                                             o.req.expiry_minutes, o.req.max_uses,
                                             o.req.reason, now)),
             outcome |-> Outcome("ok", NoDecision, next_id, << >>)]
       [] o.kind = "revoke" ->
            IF o.token_id \in TokenIds(cur)
              THEN [tokens |-> revoke(cur, o.token_id),
                    outcome |-> Outcome("ok", NoDecision, o.token_id, << >>)]
              ELSE [tokens |-> cur,
                    outcome |-> Outcome("TokenNotFound", NoDecision, o.token_id, << >>)]
       [] OTHER ->
            [tokens |-> cur,
             outcome |-> Outcome("ok", NoDecision, NoToken,
                                 list_tokens(cur, NoRule, FALSE, now))]

\* Mutant: the lock is given back as soon as the change is made in memory.
Apply_ReleasesLock(p) ==
  /\ pc[p] = "locked"
  /\ LET res == Applied(p, tokens)
     IN /\ mem' = [mem EXCEPT ![p] = res.tokens]
        /\ outcome' = [outcome EXCEPT ![p] = res.outcome]
  /\ next_id' = IF op[p].kind = "generate" THEN next_id + 1 ELSE next_id
  /\ pc' = [pc EXCEPT ![p] = "staged"]
  /\ lock' = NoProc
  /\ UNCHANGED <<config, tokens, now, log, phase, call, decision, op, hist, ops, sideVars>>

\* Under the lock the process loads the full token list and changes it in
\* memory.
Apply(p) ==
  /\ pc[p] = "locked"
  /\ LET res == Applied(p, tokens)
     IN /\ mem' = [mem EXCEPT ![p] = res.tokens]
        /\ outcome' = [outcome EXCEPT ![p] = res.outcome]
  /\ next_id' = IF op[p].kind = "generate" THEN next_id + 1 ELSE next_id
  /\ pc' = [pc EXCEPT ![p] = "staged"]
  /\ UNCHANGED <<config, tokens, now, log, phase, call, decision, lock, op, hist, ops, sideVars>>

\* Uses per token id, one more for each id in used.
RECURSIVE AddUses(_, _)
AddUses(consumed, used) ==
  IF used = << >> THEN consumed
  ELSE LET id == Head(used)
           seen == IF id \in DOMAIN consumed THEN consumed[id] ELSE 0
       IN AddUses([i \in DOMAIN consumed \cup {id} |->
                     IF i = id THEN seen + 1 ELSE consumed[i]], Tail(used))

\* The completed operations with the one p has staged added.
Completed(p) ==
  LET o == op[p]
      r == outcome[p]
  IN CASE o.kind = "validate" ->
            [hist EXCEPT !.consumed = AddUses(@, r.decision.override_token_ids)]
       [] o.kind = "generate" -> [hist EXCEPT !.generated = @ \cup {mem[p][Len(mem[p])]}]
       [] o.kind = "revoke" /\ r.status = "ok" ->
            [hist EXCEPT !.revoked = @ \cup {r.token_id}]
       [] OTHER -> hist

\* The list in memory replaces the file in one step (temporary file, then
\* rename), the lock is given back and the operation returns.
Commit(p) ==
  /\ pc[p] = "staged"
  /\ tokens' = IF op[p].kind \in {"validate", "generate", "revoke"}
                 THEN mem[p] ELSE tokens
  /\ hist' = Completed(p)
  /\ lock' = IF lock = p THEN NoProc ELSE lock
  /\ pc' = [pc EXCEPT ![p] = "idle"]
  /\ mem' = [mem EXCEPT ![p] = << >>]
  /\ UNCHANGED <<config, next_id, now, log, phase, call, decision, op, outcome, ops, sideVars>>

InitStore ==
  /\ config = CfgDefault
  /\ tokens = << >>
  /\ next_id = 1
  /\ now = 0
  /\ log = << >>
  /\ phase = "idle"
  /\ call = NoInvocation
  /\ decision = NoDecision
  /\ StoreIdle
  /\ SideIdle

NextStore ==
  \/ \E p \in Sessions : \E inv \in StoreInvocations : BeginValidate(p, inv)
  \/ \E req \in StoreRequests : BeginGenerate(req)
  \/ \E id \in RevokeIds : BeginRevoke(id)
  \/ BeginList
  \/ \E p \in Procs : Acquire(p)
  \/ \E p \in Procs : Apply(p)
  \/ \E p \in Procs : Commit(p)

SpecStore == InitStore /\ [][NextStore]_vars

\* ------------------------------------------------------------------ config loader

\* The config files a project may hold; the second project keeps to two.
FilesOf(p) == IF p = "projA" THEN ConfigFiles ELSE {NoFile, FileStrict}

\* Mutant: a cached config is dropped when the file no longer yields it.
cached_UnlessFileChanged(c, fs, p) ==
  IF c[p].loaded /\ load_file(fs[p]).config = c[p].config THEN c[p] ELSE NoEntry

\* get_validation_config: the cached entry of the project, whatever the
\* time and whatever the file holds by now.
cached(c, fs, p) == c[p]

\* clear_config_cache(project_dir = None): one entry, or all of them.
clear_config_cache(c, target) ==
  [p \in Projects |-> IF target = AllProjects \/ p = target THEN NoEntry ELSE c[p]]

\* load_validation_config(project_dir): the cached entry, else the file is
\* read, validated and merged, and the result cached.
load_validation_config(c, fs, p) ==
  LET hit == cached(c, fs, p)
      entry == IF hit.loaded THEN hit
               ELSE LET r == load_file(fs[p])
                    IN Entry(r.config, merge_with_defaults(r.config, BuiltinRules),
                             r.errors)
  IN [entry |-> entry, cache |-> [c EXCEPT ![p] = entry]]

\* The user edits (creates, deletes, breaks) the config file of a project.
WriteFile(p, f) ==
  /\ f # files[p]
  /\ files' = [files EXCEPT ![p] = f]
  /\ UNCHANGED <<cache, last_op>>
  /\ UNCHANGED <<guardVars, storeVars, faults_logged, report, extVars>>

\* A session loads the config of its project.
Load(p) ==
  LET r == load_validation_config(cache, files, p)
  IN /\ cache' = r.cache
     /\ last_op' = LoaderOp("load", p)
     /\ UNCHANGED files
     /\ UNCHANGED <<guardVars, storeVars, faults_logged, report, extVars>>

\* clear_config_cache for one project or for all.
ClearCache(target) ==
  /\ cache' = clear_config_cache(cache, target)
  /\ last_op' = LoaderOp("clear", target)
  /\ UNCHANGED files
  /\ UNCHANGED <<guardVars, storeVars, faults_logged, report, extVars>>

\* Invocations validated under the loaded config.
ProbeInvocations == {RmTmpX, RmEtc, CurlPost, WriteDanger}

\* A session of the project validates a tool call with the config and
\* the rule set it got from the loader.
Probe(p, inv) ==
  /\ cache[p].loaded
  /\ call' = inv
  /\ decision' = validate(inv, cache[p].config, cache[p].rules, << >>, now).decision
  /\ last_op' = LoaderOp("probe", p)
  /\ UNCHANGED <<files, cache>>
  /\ UNCHANGED <<config, tokens, next_id, now, log, phase>>
  /\ UNCHANGED <<storeVars, faults_logged, report, extVars>>

InitLoader ==
  /\ config = CfgDefault
  /\ tokens = << >>
  /\ next_id = 1
  /\ now = 0
  /\ log = << >>
  /\ phase = "idle"
  /\ call = NoInvocation
  /\ decision = NoDecision
  /\ StoreIdle
  /\ SideIdle

NextLoader ==
  \/ \E p \in Projects : \E f \in FilesOf(p) : WriteFile(p, f)
  \/ \E p \in Projects : Load(p)
  \/ \E target \in Projects \cup {AllProjects} : ClearCache(target)
  \/ \E p \in Projects : \E inv \in ProbeInvocations : Probe(p, inv)
  \/ Tick

SpecLoader == InitLoader /\ [][NextLoader]_vars

\* ------------------------------------------------------------------ anomaly-fix handlers

FixStatus == {"idle", "starting", "running", "completed", "failed", "cancelled"}

\* An event of a child process waiting for the event loop; code is the
\* exit code as close reports it: "0", "1", "null" after a signal, "-2"
\* when the process could not be spawned.
ChildEvent(type, code) == [type |-> type, code |-> code]

\* sendFixComplete / sendFixError: the message goes out when a window exists.
Send(f, kind) ==
  IF window_open
    THEN sent' = [sent EXCEPT ![f][kind] = @ + 1]
    ELSE UNCHANGED sent

\* A spawn has failed and its error and close events are due in the
\* current tick of the event loop, before any other handler can run.
TickDue == \E f \in FixIds : ~child[f].spawned /\ child[f].events # << >>

\* ANOMALY_FIX_START: a fresh fixId, its state 'starting' with the first
\* log entry, and the script is started later by setImmediate.
StartFix ==
  /\ ~TickDue
  /\ next_fix < MaxFixes
  /\ LET f == next_fix + 1
     IN /\ fixStates' = [fixStates EXCEPT ![f] =
                           AnomalyFixState("starting", FALSE, 1, FALSE, FALSE)]
        /\ immediate' = immediate \cup {f}
  /\ next_fix' = next_fix + 1
  /\ UNCHANGED <<activeFixes, child, sent, window_open>>
  /\ UNCHANGED <<guardVars, storeVars, faults_logged, report, loaderVars, graphVars>>

\* The setImmediate callback: the state object turns 'running' and
\* runFixScript spawns the child, enters it in activeFixes and registers
\* its handlers.  A spawn that fails (no python3 to run) emits error and
\* then close with a negative code.
RunFixScript(f, spawns) ==
  /\ ~TickDue
  /\ f \in immediate
  /\ immediate' = immediate \ {f}
  /\ fixStates' = [fixStates EXCEPT ![f].status = "running"]
  /\ activeFixes' = activeFixes \cup {f}
  /\ child' = [child EXCEPT ![f] =
                 IF spawns
                   THEN ChildProcess(TRUE, TRUE, FALSE, << >>)
                   ELSE ChildProcess(FALSE, FALSE, FALSE,
                                     <<ChildEvent("error", "-2"), ChildEvent("close", "-2")>>)]
  /\ UNCHANGED <<sent, window_open, next_fix>>
  /\ UNCHANGED <<guardVars, storeVars, faults_logged, report, loaderVars, graphVars>>

\* The child writes to stdout or stderr: the data handler adds a log entry
\* to the state of the fix, when the state still exists.
ChildData(f) ==
  /\ ~TickDue
  /\ child[f].spawned
  /\ child[f].alive
  /\ fixStates[f].exists
  /\ fixStates[f].logs <= MaxLogs
  /\ fixStates' = [fixStates EXCEPT ![f].logs = @ + 1]
  /\ UNCHANGED <<activeFixes, child, immediate, sent, window_open, next_fix>>
  /\ UNCHANGED <<guardVars, storeVars, faults_logged, report, loaderVars, graphVars>>

\* The child process ends: by itself with code 0 or 1, or by the SIGTERM
\* it was sent, which close reports as code null.
ChildExits(f, code) ==
  /\ ~TickDue
  /\ child[f].alive
  /\ code \in (IF child[f].killed THEN {"null"} ELSE {"0", "1"})
  /\ child' = [child EXCEPT ![f].alive = FALSE,
                            ![f].events = Append(@, ChildEvent("close", code))]
  /\ UNCHANGED <<fixStates, activeFixes, immediate, sent, window_open, next_fix>>
  /\ UNCHANGED <<guardVars, storeVars, faults_logged, report, loaderVars, graphVars>>

\* child.on('close'): the fix leaves activeFixes; with a state, code 0
\* makes it 'completed' and sends ANOMALY_FIX_COMPLETE, any other code
\* makes it 'failed' and sends ANOMALY_FIX_ERROR.
OnClose(f) ==
  /\ TickDue => ~child[f].spawned
  /\ child[f].events # << >>
  /\ Head(child[f].events).type = "close"
  /\ child' = [child EXCEPT ![f].events = Tail(@)]
  /\ activeFixes' = activeFixes \ {f}
  /\ IF ~fixStates[f].exists
       THEN UNCHANGED <<fixStates, sent>>
     ELSE IF Head(child[f].events).code = "0"
       THEN /\ fixStates' = [fixStates EXCEPT ![f].status = "completed",
                                              ![f].ended = TRUE,
                                              ![f].result = TRUE]
            /\ Send(f, "complete")
       ELSE /\ fixStates' = [fixStates EXCEPT ![f].status = "failed",
                                              ![f].ended = TRUE,
                                              ![f].error = TRUE]
            /\ Send(f, "error")
  /\ UNCHANGED <<immediate, window_open, next_fix>>
  /\ UNCHANGED <<guardVars, storeVars, faults_logged, report, loaderVars, graphVars>>

\* child.on('error'): the fix leaves activeFixes; with a state it becomes
\* 'failed' and ANOMALY_FIX_ERROR is sent.
OnError(f) ==
  /\ child[f].events # << >>
  /\ Head(child[f].events).type = "error"
  /\ child' = [child EXCEPT ![f].events = Tail(@)]
  /\ activeFixes' = activeFixes \ {f}
  /\ IF ~fixStates[f].exists
       THEN UNCHANGED <<fixStates, sent>>
       ELSE /\ fixStates' = [fixStates EXCEPT ![f].status = "failed",
                                              ![f].ended = TRUE,
                                              ![f].error = TRUE]
            /\ Send(f, "error")
  /\ UNCHANGED <<immediate, window_open, next_fix>>
  /\ UNCHANGED <<guardVars, storeVars, faults_logged, report, loaderVars, graphVars>>

\* ANOMALY_FIX_CANCEL: a fix in activeFixes gets SIGTERM and leaves the
\* map; its state becomes 'cancelled' with one more log entry.  For any
\* other fixId the handler answers 'Fix not found or already completed'.
CancelFix(f) ==
  /\ ~TickDue
  /\ f \in activeFixes
  /\ child' = [child EXCEPT ![f].killed = child[f].alive]
  /\ activeFixes' = activeFixes \ {f}
  /\ IF fixStates[f].exists
       THEN fixStates' = [fixStates EXCEPT ![f].status = "cancelled",
                                           ![f].ended = TRUE,
                                           ![f].logs = @ + 1]
       ELSE UNCHANGED fixStates
  /\ UNCHANGED <<immediate, sent, window_open, next_fix>>
  /\ UNCHANGED <<guardVars, storeVars, faults_logged, report, loaderVars, graphVars>>

\* cleanupOldFixStates: the state of a fix that ended long enough ago is
\* deleted (a fix without endTime counts as ended now and stays).
CleanupOldFixStates(f) ==
  /\ ~TickDue
  /\ fixStates[f].exists
  /\ fixStates[f].ended
  /\ fixStates' = [fixStates EXCEPT ![f] = NoFix]
  /\ UNCHANGED <<activeFixes, child, immediate, sent, window_open, next_fix>>
  /\ UNCHANGED <<guardVars, storeVars, faults_logged, report, loaderVars, graphVars>>

\* The user closes the main window.
CloseWindow ==
  /\ ~TickDue
  /\ window_open
  /\ window_open' = FALSE
  /\ UNCHANGED <<fixStates, activeFixes, child, immediate, sent, next_fix>>
  /\ UNCHANGED <<guardVars, storeVars, faults_logged, report, loaderVars, graphVars>>

NextFix ==
  \/ StartFix
  \/ \E f \in FixIds : \E spawns \in BOOLEAN : RunFixScript(f, spawns)
  \/ \E f \in FixIds : ChildData(f)
  \/ \E f \in FixIds : \E code \in {"0", "1", "null"} : ChildExits(f, code)
  \/ \E f \in FixIds : OnClose(f)
  \/ \E f \in FixIds : OnError(f)
  \/ \E f \in FixIds : CancelFix(f)
  \/ \E f \in FixIds : CleanupOldFixStates(f)
  \/ CloseWindow

InitFix == InitLoader

SpecFix == InitFix /\ [][NextFix]_vars

\* ------------------------------------------------------------------ useMemoryGraph

GraphProjects == {"pA", "pB"}

\* MemoryGraphData as the backend returns it for a project.
GraphOf(id) == [project |-> id, loaded |-> TRUE]

\* fetchGraphData(id, useCache) up to its await: an empty id clears the
\* state; a cached id is shown from the cache; an id that is being fetched
\* is left alone; else the fetch starts and loading is set.
FetchGraphData(id, useCache) ==
  IF id = NoProject
    THEN /\ graphData' = NoGraph
         /\ loading' = FALSE
         /\ error' = FALSE
         /\ UNCHANGED fetchingRef
  ELSE IF useCache /\ id \in cacheRef
    THEN /\ graphData' = GraphOf(id)
         /\ loading' = FALSE
         /\ error' = FALSE
         /\ UNCHANGED fetchingRef
  ELSE IF id \in fetchingRef
    THEN UNCHANGED <<graphData, loading, error, fetchingRef>>
  ELSE /\ fetchingRef' = fetchingRef \cup {id}
       /\ loading' = TRUE
       /\ error' = FALSE
       /\ UNCHANGED graphData

\* The component renders with another projectId; the effect that depends
\* on projectId is scheduled.
ChangeProject(id) ==
  /\ ~effect_due
  /\ id # projectId
  /\ projectId' = id
  /\ effect_due' = TRUE
  /\ UNCHANGED <<graphData, loading, error, cacheRef, fetchingRef>>
  /\ UNCHANGED <<guardVars, storeVars, faults_logged, report, loaderVars, fixVars>>

\* useEffect on [projectId, fetchGraphData]: fetchGraphData(projectId).
RunEffect ==
  /\ effect_due
  /\ effect_due' = FALSE
  /\ FetchGraphData(projectId, TRUE)
  /\ UNCHANGED <<projectId, cacheRef>>
  /\ UNCHANGED <<guardVars, storeVars, faults_logged, report, loaderVars, fixVars>>

\* refresh(): fetchGraphData(projectId, false) when projectId is set.
Refresh ==
  /\ ~effect_due
  /\ projectId # NoProject
  /\ FetchGraphData(projectId, FALSE)
  /\ UNCHANGED <<projectId, cacheRef, effect_due>>
  /\ UNCHANGED <<guardVars, storeVars, faults_logged, report, loaderVars, fixVars>>

\* getGraphData(id) settles and fetchGraphData goes on after its await:
\* on success the data is shown and cached, else the error is set and the
\* graph cleared; in both cases loading ends and id leaves fetchingRef.
Settle(id, ok) ==
  /\ id \in fetchingRef
  /\ IF ok
       THEN /\ graphData' = GraphOf(id)
            /\ cacheRef' = cacheRef \cup {id}
            /\ UNCHANGED error
       ELSE /\ error' = TRUE
            /\ graphData' = NoGraph
            /\ UNCHANGED cacheRef
  /\ loading' = FALSE
  /\ fetchingRef' = fetchingRef \ {id}
  /\ UNCHANGED <<projectId, effect_due>>
  /\ UNCHANGED <<guardVars, storeVars, faults_logged, report, loaderVars, fixVars>>

\* clearCache(id?): one entry of the cache, or all of them.
ClearGraphCache(id) ==
  /\ cacheRef' = IF id = NoProject THEN {} ELSE cacheRef \ {id}
  /\ UNCHANGED <<projectId, graphData, loading, error, fetchingRef, effect_due>>
  /\ UNCHANGED <<guardVars, storeVars, faults_logged, report, loaderVars, fixVars>>

\* The component is mounted: first render with a projectId, nothing
\* loaded, the effect scheduled.
InitGraph ==
  /\ config = CfgDefault
  /\ tokens = << >>
  /\ next_id = 1
  /\ now = 0
  /\ log = << >>
  /\ phase = "idle"
  /\ call = NoInvocation
  /\ decision = NoDecision
  /\ StoreIdle
  /\ faults_logged = 0
  /\ report = NoReport
  /\ LoaderIdle
  /\ FixIdle
  /\ projectId \in GraphProjects \cup {NoProject}
  /\ graphData = NoGraph
  /\ loading = TRUE
  /\ error = FALSE
  /\ cacheRef = {}
  /\ fetchingRef = {}
  /\ effect_due = TRUE

NextGraph ==
  \/ \E id \in GraphProjects \cup {NoProject} : ChangeProject(id)
  \/ RunEffect
  \/ Refresh
  \/ \E id \in GraphProjects : \E ok \in BOOLEAN : Settle(id, ok)
  \/ \E id \in GraphProjects \cup {NoProject} : ClearGraphCache(id)

SpecGraph == InitGraph /\ [][NextGraph]_vars

\* ------------------------------------------------------------------ claims

LastEvent == log[Len(log)]

\* C1: a tool call runs only after validate has returned a decision for it,
\* and only when that decision is allowed or warned; a call decided blocked
\* is aborted and never runs.
C1_RunsOnlyAfterAllowingDecision ==
  /\ phase = "running" =>
       /\ decision.decision \in {"allowed", "warned"}
       /\ Len(log) > 0
       /\ LastEvent = ValidationEvent(call, decision)
  /\ decision.decision = "blocked" => phase \in {"decided", "aborted"}
  /\ phase \in {"decided", "running", "aborted"} =>
       /\ call \in Invocations
       /\ decision.decision \in {"allowed", "warned", "blocked"}

C1_Witness ==
  /\ phase = "aborted"
  /\ decision.decision = "blocked"
  /\ Len(log) = 2
  /\ log[1].decision = "warned"

\* Severity a rule id has after severity_overrides: the override of the id
\* if there is one, else the severity the rule was written with.
WrittenSeverity(id) ==
  LET custom == config.custom_rules
  IN IF \E i \in 1..Len(custom) : custom[i].rule_id = id
       THEN (CHOOSE r \in {custom[i] : i \in 1..Len(custom)} : r.rule_id = id).severity
       ELSE (CHOOSE r \in {BuiltinRules[i] : i \in 1..Len(BuiltinRules)} :
               r.rule_id = id).severity

EffectiveSeverity(id) ==
  IF id \in DOMAIN config.severity_overrides
    THEN config.severity_overrides[id]
    ELSE WrittenSeverity(id)

\* Rule ids of the tokens the decision used (read while the call is decided:
\* the used tokens are still in the store).
OverriddenIds ==
  {tokens[i].rule_id : i \in {j \in 1..Len(tokens) :
      \E k \in 1..Len(decision.override_token_ids) :
        decision.override_token_ids[k] = tokens[j].token_id}}

\* Ids of the rules whose pattern is found in the call, among the rules in
\* force for its tool type.
FiringIdsOf ==
  [cfg \in Configs, inv \in Invocations |->
     LET rs == RulesOf[cfg]
     IN {rs[i].rule_id : i \in {j \in 1..Len(rs) :
           /\ rs[j].enabled
           /\ inv.tool_type \in rs[j].tool_types
           /\ PatternFires(rs[j], inv)}}]

FiringIds == FiringIdsOf[config, call]

\* The rules that fired and were not overridden: none when the pattern
\* stage is not reached.
FiredNotOverridden ==
  IF ~config.enabled \/ (call.path # NoText /\ \E g \in config.allowed_paths :
                                                  GlobMatch(g, call.path))
    THEN {}
    ELSE FiringIds \ OverriddenIds

MaxRank(ids) ==
  IF ids = {} THEN 0
  ELSE CHOOSE n \in {SevRank(EffectiveSeverity(id)) : id \in ids} :
         \A id \in ids : SevRank(EffectiveSeverity(id)) <= n

\* C2: without strict mode the decision is allowed when no rule fired (or
\* all were overridden), blocked when the maximum effective severity is
\* CRITICAL or HIGH, warned when it is MEDIUM or LOW, and the severity of
\* the decision is that maximum.
C2_DecisionFromMaxSeverity ==
  (phase = "decided" /\ ~config.strict_mode) =>
    LET fired == FiredNotOverridden
        top == MaxRank(fired)
    IN /\ {decision.matched_rules[i] : i \in 1..Len(decision.matched_rules)} = fired
       /\ SevRank(decision.severity) = top
       /\ (fired = {}) => decision.decision = "allowed" /\ decision.severity = NoSeverity
       /\ top \in {3, 4} => decision.decision = "blocked"
       /\ top \in {1, 2} => decision.decision = "warned"

C2_Witness ==
  /\ phase = "decided"
  /\ config = CfgTuned
  /\ call = CurlPost
  /\ decision.decision = "blocked"
  /\ decision.severity = "HIGH"
  /\ decision.matched_rules = <<"bash-curl-data-exfil">>

\* The token store validate read for the decided call: the current store
\* with the uses of this decision taken back.
StoreBefore ==
  [i \in 1..Len(tokens) |->
     IF \E k \in 1..Len(decision.override_token_ids) :
          decision.override_token_ids[k] = tokens[i].token_id
       THEN [tokens[i] EXCEPT !.use_count = @ - 1]
       ELSE tokens[i]]

\* validate of the decided call on rule set rs and token store store, with
\* strict_mode forced (strict_mode plays no part in merging the rules).
WithStrict(strict, rs, store) ==
  validate(call, [config EXCEPT !.strict_mode = strict], rs, store, now).decision

\* C3: for a fixed invocation, rule set and token store, strict_mode changes
\* the decision exactly when the maximum severity of the fired rules is
\* MEDIUM or LOW (warned without, blocked with); matched_rules and severity
\* are the same under both settings.
C3_StrictFlipsOnlyMediumLow ==
  phase = "decided" =>
    LET rs == EffectiveRules
        store == StoreBefore
        lax == WithStrict(FALSE, rs, store)
        strict == WithStrict(TRUE, rs, store)
    IN /\ decision = IF config.strict_mode THEN strict ELSE lax
       /\ lax.matched_rules = strict.matched_rules
       /\ lax.severity = strict.severity
       /\ (lax.decision # strict.decision) <=> (lax.severity \in {"MEDIUM", "LOW"})
       /\ lax.severity \in {"MEDIUM", "LOW"} =>
            lax.decision = "warned" /\ strict.decision = "blocked"

C3_Witness ==
  /\ phase = "decided"
  /\ config.strict_mode
  /\ call = CurlPost
  /\ decision.decision = "blocked"
  /\ decision.severity = "MEDIUM"
  /\ WithStrict(FALSE, EffectiveRules, StoreBefore).decision = "warned"

\* C4: with validation enabled, an invocation whose target path matches an
\* allowed_paths glob is decided allowed whatever its command or content
\* and whatever rules match it, in strict mode too, and cites no rule.
C4_AllowedPathAlwaysAllowed ==
  (/\ phase \in {"decided", "running", "aborted"}
   /\ config.enabled
   /\ call.path # NoText
   /\ \E g \in config.allowed_paths : GlobMatch(g, call.path)) =>
    /\ decision.decision = "allowed"
    /\ decision.matched_rules = << >>
    /\ decision.severity = NoSeverity
    /\ phase # "aborted"

C4_Witness ==
  /\ phase = "decided"
  /\ config = CfgStrictPaths
  /\ call = WriteDanger
  /\ "no-rm-in-scripts" \in FiringIds
  /\ decision.decision = "allowed"

C6_DisabledSkipsAllStages ==
  ~config.enabled =>
    /\ \A i \in 1..Len(tokens) : tokens[i].use_count = 0
    /\ \A k \in 1..Len(log) :
         /\ log[k].decision = "allowed"
         /\ log[k].matched_rules = << >>
         /\ log[k].override_token_id = NoToken
    /\ phase # "aborted"
    /\ phase # "idle" =>
         /\ decision.decision = "allowed"
         /\ decision.stages = <<"enabled">>
         /\ decision.matched_rules = << >>
         /\ decision.override_token_ids = << >>

C6_Witness ==
  /\ ~config.enabled
  /\ phase = "decided"
  /\ call = RmTmpX
  /\ decision.decision = "allowed"
  /\ \E i \in 1..Len(tokens) :
       /\ tokens[i].rule_id = "bash-rm-rf-root"
       /\ tokens[i].scope.kind = "all"
       /\ now < tokens[i].expires_at
       /\ tokens[i].use_count = 0

\* The decision of the rules in rs alone, with no override token at all.
DecisionOf(rs) == validate(call, config, rs, << >>, now).decision

\* C7: an applicable token suppresses only the rule it names: when the call
\* fires rule A with an applicable token and rule B with none, the decision
\* is the one the rules without a token produce alone (blocked if B is HIGH
\* or CRITICAL), and matched_rules has B and not A.
C7_OverrideIsPerRule ==
  (/\ phase = "decided"
   /\ config.enabled
   /\ ~(call.path # NoText /\ \E g \in config.allowed_paths : GlobMatch(g, call.path))) =>
    LET rs == EffectiveRules
        store == StoreBefore
        firing == FiringIds
        covered == {id \in firing : find_applicable(store, id, call, now) # NoToken}
        matched == {decision.matched_rules[i] : i \in 1..Len(decision.matched_rules)}
        others == SelectSeq(rs, LAMBDA r :
                    find_applicable(store, r.rule_id, call, now) = NoToken)
        alone == DecisionOf(others)
    IN \A a \in covered : \A b \in firing \ covered :
         /\ a \notin matched
         /\ b \in matched
         /\ decision.decision = alone.decision
         /\ decision.matched_rules = alone.matched_rules
         /\ decision.severity = alone.severity
         /\ SevRank(EffectiveSeverity(b)) >= 3 => decision.decision = "blocked"
         /\ decision.decision # "allowed"

C7_Witness ==
  /\ phase = "decided"
  /\ config = CfgTuned
  /\ call = TelnetRm
  /\ OverriddenIds = {"no-rm-in-scripts"}
  /\ decision.matched_rules = <<"bash-rm-rf-root">>
  /\ decision.decision = "blocked"

\* A piece of a path satisfies one glob element.
PieceSatisfies(g, piece) ==
  CASE g.k = "dstar" -> TRUE
    [] g.k = "star" -> \A i \in 1..Len(piece) : piece[i] # "/"
    [] g.k = "any1" -> Len(piece) = 1 /\ piece[1] # "/"
    [] g.k = "lit" -> Len(piece) = 1 /\ piece[1] \in g.s
    [] g.k = "cls" -> Len(piece) = 1 /\ piece[1] \in g.s
    [] g.k = "ncls" -> Len(piece) = 1 /\ piece[1] \notin g.s /\ piece[1] # "/"
    [] OTHER -> FALSE

\* A path satisfies a glob when it can be cut into consecutive pieces, one
\* per glob element, each satisfying its element.
PathSatisfies(glob, path) ==
  \E cut \in [0..Len(glob) -> 0..Len(path)] :
    /\ cut[0] = 0
    /\ cut[Len(glob)] = Len(path)
    /\ \A j \in 1..Len(glob) :
         /\ cut[j - 1] <= cut[j]
         /\ PieceSatisfies(glob[j], SubSeq(path, cut[j - 1] + 1, cut[j]))

\* What the scopes mean: all matches everything; command:<pattern> the bash
\* invocations whose command has <pattern> as a contiguous run; file:<glob>
\* the invocations that target a path satisfying the glob.
ScopeMeans(scope, inv) ==
  \/ scope.kind = "all"
  \/ /\ scope.kind = "command"
     /\ inv.tool_type = "bash"
     /\ \E i \in 1..(Len(inv.command) + 1) :
          /\ i + Len(scope.pattern) - 1 <= Len(inv.command)
          /\ \A j \in 1..Len(scope.pattern) : inv.command[i + j - 1] = scope.pattern[j]
  \/ /\ scope.kind = "file"
     /\ inv.path # NoText
     /\ PathSatisfies(scope.glob, inv.path)

\* Scopes the matching is probed with, those of the token requests included.
ProbeScopes ==
  {req.scope : req \in TokenRequests} \cup
  { ScopeFile(GlobTests), ScopeFile(GlobTmp), ScopeFile(<<DStar, Lit("x")>>),
    ScopeFile(<<Lit("/"), Any1, Lit("/"), NCls({"x"})>>),
    ScopeFile(<<Lit("/"), Cls({"etc", "tmp"}), Star>>),
    ScopeCommand(<<"password">>), ScopeCommand(<<"rm", "-rf", "/">>),
    ScopeCommand(<<"-rf", "rm">>), ScopeCommand(<<"file://">>) }

ScopeMeaning == [scope \in ProbeScopes |-> {inv \in AllInvocations : ScopeMeans(scope, inv)}]

ScopeAgreesOnProbes ==
  \A scope \in ProbeScopes :
    {inv \in AllInvocations : ScopeMatches(scope, inv)} = ScopeMeaning[scope]

\* The four conditions of an applicable token.
Applicable(tok, rule_id, inv, t) ==
  /\ tok.rule_id = rule_id
  /\ (tok.expires_at = NoExpiry \/ t < tok.expires_at)
  /\ (tok.max_uses = 0 \/ tok.use_count < tok.max_uses)
  /\ inv \in ScopeMeaning[tok.scope]

TokenRuleIds == {req.rule_id : req \in TokenRequests} \cup {"bash-curl-data-exfil"}

\* C8: find_applicable returns a token only if it is stored for the rule,
\* unexpired, not exhausted and scope-matching, and returns none only when
\* no stored token satisfies all four; no expired or exhausted token is
\* ever used for an override.
C8_FindApplicableSoundAndComplete ==
  phase = "decided" =>
    LET store == StoreBefore
        firing == FiringIds
    IN /\ \A rule_id \in TokenRuleIds :
            LET id == find_applicable(store, rule_id, call, now)
            IN /\ id # NoToken =>
                    \E i \in 1..Len(store) :
                      store[i].token_id = id /\ Applicable(store[i], rule_id, call, now)
               /\ id = NoToken =>
                    \A i \in 1..Len(store) : ~Applicable(store[i], rule_id, call, now)
       /\ \A k \in 1..Len(decision.override_token_ids) :
            \E i \in 1..Len(store) :
              /\ store[i].token_id = decision.override_token_ids[k]
              /\ store[i].rule_id \in firing
              /\ Applicable(store[i], store[i].rule_id, call, now)

C8_Witness ==
  /\ phase = "decided"
  /\ call = RmTmpX
  /\ Len(tokens) = 2
  /\ StoreBefore[1].rule_id = "bash-rm-rf-root"
  /\ StoreBefore[1].max_uses = 1
  /\ StoreBefore[1].use_count = 1
  /\ decision.override_token_ids = <<tokens[2].token_id>>
  /\ decision.decision = "allowed"

\* C9: a token with max_uses = n > 0 is used at most n times; once it is
\* exhausted a matching invocation finds no applicable token and is decided
\* by pattern evaluation.  With the single-use token for bash-rm-rf-root
\* scoped to file:/tmp/x, the first rm -rf /tmp/x is allowed with
\* use_count = 1 and the identical second one is blocked.
C9_ExhaustedTokenFallsThrough ==
  /\ \A i \in 1..Len(tokens) :
       tokens[i].max_uses > 0 => tokens[i].use_count <= tokens[i].max_uses
  /\ (phase = "decided" /\ config.enabled) =>
       LET store == StoreBefore
           matched == {decision.matched_rules[i] : i \in 1..Len(decision.matched_rules)}
           exempt == call.path # NoText /\ \E g \in config.allowed_paths :
                                              GlobMatch(g, call.path)
       IN /\ \A i \in 1..Len(store) :
               (store[i].max_uses > 0 /\ store[i].use_count = store[i].max_uses) =>
                 \A k \in 1..Len(decision.override_token_ids) :
                   decision.override_token_ids[k] # store[i].token_id
          /\ \A id \in FiringIds :
               (/\ ~exempt
                /\ \A i \in 1..Len(store) :
                     (store[i].rule_id = id /\ call \in ScopeMeaning[store[i].scope]) =>
                       (store[i].max_uses > 0 /\ store[i].use_count = store[i].max_uses))
               => id \in matched
          /\ (/\ config = CfgDefault
              /\ call = RmTmpX
              /\ Len(store) = 1
              /\ store[1].rule_id = "bash-rm-rf-root"
              /\ store[1].scope = ScopeFile(GlobTmpX)
              /\ store[1].max_uses = 1) =>
               IF store[1].use_count = 0
                 THEN /\ decision.decision = "allowed"
                      /\ decision.override_token_ids = <<store[1].token_id>>
                      /\ tokens[1].use_count = 1
                 ELSE /\ decision.decision = "blocked"
                      /\ decision.matched_rules = <<"bash-rm-rf-root">>
                      /\ decision.severity = "CRITICAL"
                      /\ decision.override_token_ids = << >>
                      /\ tokens[1].use_count = 1

C9_Witness ==
  /\ phase = "decided"
  /\ config = CfgDefault
  /\ call = RmTmpX
  /\ Len(tokens) = 1
  /\ tokens[1].scope = ScopeFile(GlobTmpX)
  /\ tokens[1].max_uses = 1
  /\ tokens[1].use_count = 1
  /\ Len(log) = 2
  /\ log[1].decision = "allowed"
  /\ log[1].override_token_id = tokens[1].token_id
  /\ decision.decision = "blocked"

\* C10: scope "all" matches every invocation; "command:<pattern>" matches
\* exactly the bash invocations whose command contains <pattern> as a
\* literal substring, never a write, edit, web_fetch or web_search one;
\* "file:<glob>" matches exactly the invocations targeting a path that
\* satisfies the glob.
C10_ScopeMatching ==
  /\ ScopeAgreesOnProbes
  /\ \A i \in 1..Len(tokens) : tokens[i].scope \in ProbeScopes
  /\ phase = "decided" =>
       \A k \in 1..Len(decision.override_token_ids) :
         \E i \in 1..Len(tokens) :
           /\ tokens[i].token_id = decision.override_token_ids[k]
           /\ call \in ScopeMeaning[tokens[i].scope]

C10_Witness ==
  /\ phase = "decided"
  /\ call = WriteDanger
  /\ decision.decision = "blocked"
  /\ decision.matched_rules = <<"no-rm-in-scripts">>
  /\ \E i \in 1..Len(tokens) :
       /\ tokens[i].rule_id = "no-rm-in-scripts"
       /\ tokens[i].scope.kind = "command"
       /\ tokens[i].use_count = 0
       /\ ContainsLiteral(call.content, tokens[i].scope.pattern)

\* Number of places of the sequence of used token ids that hold id.
TimesUsed(used, id) == Cardinality({k \in 1..Len(used) : used[k] = id})

\* C13: a validation raises the use_count of each token it used by exactly
\* 1 in the token file, also when another rule finally blocks or warns the
\* invocation; it changes no other field, adds and removes no token, and
\* when it used no token the file is left as it was.
C13_ConsumeFrame ==
  [][Len(log') = Len(log) + 1 =>
       LET used == decision'.override_token_ids
       IN /\ Len(tokens') = Len(tokens)
          /\ \A k \in 1..Len(used) :
               /\ TimesUsed(used, used[k]) = 1
               /\ used[k] \in {tokens[i].token_id : i \in 1..Len(tokens)}
          /\ \A i \in 1..Len(tokens) :
               tokens'[i] = [tokens[i] EXCEPT
                               !.use_count = @ + TimesUsed(used, tokens[i].token_id)]
          /\ used = << >> => tokens' = tokens]_vars

C13_Witness ==
  /\ phase = "decided"
  /\ config = CfgDefault
  /\ call = TelnetRm
  /\ decision.decision = "warned"
  /\ decision.matched_rules = <<"bash-deprecated-command">>
  /\ Len(tokens) = 2
  /\ decision.override_token_ids = <<tokens[2].token_id>>
  /\ tokens[1].rule_id = tokens[2].rule_id
  /\ tokens[1].use_count = 0
  /\ tokens[2].use_count = 1

\* C14: generate immediately followed by list returns, last in the list,
\* a token with the id, rule_id, scope, expires_at and max_uses of the
\* generated token and use_count 0 (also when the list is asked for that
\* rule only); the tokens listed before are listed still, unchanged.
C14_GenerateThenList ==
  [][next_id' = next_id + 1 =>
       LET listed == list_tokens(tokens', NoRule, FALSE, now')
           before == list_tokens(tokens, NoRule, FALSE, now)
       IN /\ Len(listed) = Len(before) + 1
          /\ SubSeq(listed, 1, Len(before)) = before
          /\ \E req \in TokenRequests :
               LET tok == NewToken(next_id, req.rule_id, req.scope, req.expiry_minutes,
                                   req.max_uses, req.reason, now)
                   of_rule == list_tokens(tokens', req.rule_id, FALSE, now')
               IN /\ listed[Len(listed)] = tok
                  /\ tok.use_count = 0
                  /\ of_rule # << >>
                  /\ of_rule[Len(of_rule)] = tok]_vars

C14_Witness ==
  /\ phase = "running"
  /\ next_id = 3
  /\ Len(tokens) = 2
  /\ tokens[1].use_count = 1
  /\ tokens[2].token_id = 2
  /\ tokens[2].use_count = 0
  /\ tokens[2].expires_at = NoExpiry
  /\ Len(log) = 1
  /\ list_tokens(tokens, NoRule, FALSE, now) = tokens
  /\ list_tokens(tokens, tokens[2].rule_id, FALSE, now) = <<tokens[2]>>

\* Times far from the clock: its start, and a time it never reaches.
FarTimes == {0, MaxTime + 2}

\* find_applicable gives the token tok for inv at time t when no other
\* token is stored.
FoundAt(tok, inv, t) == find_applicable(<<tok>>, tok.rule_id, inv, t) = tok.token_id

\* No stored token is applicable once the clock has reached its expires_at,
\* and one without expires_at is valid now exactly if it is at any other
\* time.
ExpiryRespected ==
  \A i \in 1..Len(tokens) :
    LET tok == tokens[i]
    IN IF tok.expires_at = NoExpiry
         THEN \A t \in FarTimes : TokenValid(tok, t) <=> TokenValid(tok, now)
         ELSE now >= tok.expires_at =>
                \A inv \in AllInvocations : ~FoundAt(tok, inv, now)

\* C15: a token generated with expiry_minutes = m > 0 has expires_at =
\* creation time + m and is applicable to no invocation validated at or
\* after expires_at; one generated with expiry_minutes = 0 has no
\* expires_at and never becomes inapplicable through the passage of time.
C15_ExpiryFromCreation ==
  /\ []ExpiryRespected
  /\ [][next_id' = next_id + 1 =>
          /\ Len(tokens') = Len(tokens) + 1
          /\ \E req \in TokenRequests :
               LET tok == tokens'[Len(tokens')]
               IN /\ tok.rule_id = req.rule_id
                  /\ tok.scope = req.scope
                  /\ tok.max_uses = req.max_uses
                  /\ req.expiry_minutes > 0 => tok.expires_at = now + req.expiry_minutes
                  /\ req.expiry_minutes = 0 => tok.expires_at = NoExpiry]_vars
  /\ [][(phase' = "decided" /\ phase # "decided") =>
          \A k \in 1..Len(decision'.override_token_ids) :
            \A i \in 1..Len(tokens) :
              tokens[i].token_id = decision'.override_token_ids[k] =>
                (tokens[i].expires_at = NoExpiry \/ now < tokens[i].expires_at)]_vars

C15_Witness ==
  /\ phase = "decided"
  /\ call = RmTmpX
  /\ now = 1
  /\ Len(tokens) = 2
  /\ tokens[1].expires_at = 1
  /\ tokens[1].use_count = 0
  /\ tokens[1].scope.kind = "all"
  /\ tokens[2].expires_at = 2
  /\ tokens[2].use_count = 1
  /\ decision.override_token_ids = <<tokens[2].token_id>>

\* The sequence sub occurs in seq as a contiguous run.
OccursIn(sub, seq) ==
  \E i \in 0..(Len(seq) - Len(sub)) : SubSeq(seq, i + 1, i + Len(sub)) = sub

\* C19: when several rules fire on one invocation the decision lists every
\* fired rule that no token overrode, each once, reports their maximum
\* severity and carries the message and the suggestions of each of them;
\* no match of lower severity is dropped.
C19_AllMatchesReported ==
  phase = "decided" =>
    LET rs == EffectiveRules
        fired == FiredNotOverridden
        matched == decision.matched_rules
    IN /\ {matched[i] : i \in 1..Len(matched)} = fired
       /\ Len(matched) = Cardinality(fired)
       /\ Len(decision.message) = Cardinality(fired)
       /\ SevRank(decision.severity) = MaxRank(fired)
       /\ \A j \in 1..Len(rs) :
            rs[j].rule_id \in fired =>
              /\ \E i \in 1..Len(decision.message) : decision.message[i] = rs[j].message
              /\ OccursIn(rs[j].suggestions, decision.suggestions)
              /\ SevRank(rs[j].severity) <= SevRank(decision.severity)

C19_Witness ==
  /\ phase = "decided"
  /\ config = CfgDefault
  /\ call = TelnetRm
  /\ decision.override_token_ids = << >>
  /\ decision.decision = "blocked"
  /\ decision.severity = "CRITICAL"
  /\ decision.matched_rules = <<"bash-rm-rf-root", "bash-deprecated-command">>
  /\ decision.message = <<"recursive delete from root", "deprecated command">>
  /\ decision.suggestions = <<"use a relative path", "use ssh">>

\* The order of the stages of one validation.
StageOrder == <<"enabled", "override", "paths", "pattern", "aggregate">>

IsPrefix(a, b) == Len(a) <= Len(b) /\ SubSeq(b, 1, Len(a)) = a

Reached(d, stage) == \E k \in 1..Len(d.stages) : d.stages[k] = stage

DecisionReasons ==
  {"disabled", "override", "path-exempt", "pattern", "no-match", "internal-fault"}

FaultEvents == {k \in 1..Len(log) : log[k].decision = "warned" /\ log[k].matched_rules = << >>}

\* C18: a validation hit by an internal fault raises nothing into the
\* pipeline: it returns a decision, which is warned and never allowed, the
\* fault is logged, and the invocations after it are validated as without
\* the fault.
C18_FaultFailsClosed ==
  /\ [](/\ phase \in {"idle", "decided", "running", "aborted"}
        /\ decision.reason = "internal-fault" =>
             /\ decision.decision = "warned"
             /\ phase \in {"decided", "running"}
             /\ faults_logged > 0
        /\ Cardinality(FaultEvents) = faults_logged
        /\ \A k \in 1..Len(log) :
             log[k].decision = "allowed" => k \notin FaultEvents)
  /\ [][(phase' = "decided" /\ phase # "decided") =>
          IF faults_logged' = faults_logged
            THEN LET res == validate(call', config, EffectiveRules, tokens, now)
                 IN /\ decision' = res.decision
                    /\ tokens' = res.tokens
            ELSE /\ faults_logged' = faults_logged + 1
                 /\ decision'.reason = "internal-fault"
                 /\ decision'.decision = "warned"]_vars

C18_Witness ==
  /\ phase = "aborted"
  /\ faults_logged = 1
  /\ Len(log) = 2
  /\ log[1].decision = "warned"
  /\ log[1].matched_rules = << >>
  /\ decision.decision = "blocked"
  /\ decision.reason = "pattern"
  /\ call = CurlPost
  /\ config.strict_mode

\* ------------------------------------------------------------------ claims on the report

\* The events in another order: place i holds the event of place f[i].
Reordered(events, f) == [i \in 1..Len(events) |-> events[f[i]]]

Reorderings(n) == {f \in [1..n -> 1..n] : \A i, j \in 1..n : f[i] = f[j] => i = j}

\* Groups in descending order of count, ties in ascending order of rule id,
\* one group for each rule the events of that decision cite, counting the
\* times it is cited.
WellGrouped(groups, events, d) ==
  LET cited == CitedRules(events, d)
  IN /\ \A i \in 1..Len(groups) : \A j \in 1..Len(groups) :
          i < j =>
            \/ groups[i].count > groups[j].count
            \/ /\ groups[i].count = groups[j].count
               /\ IdRank(groups[i].rule_id) < IdRank(groups[j].rule_id)
     /\ {groups[i].rule_id : i \in 1..Len(groups)} = {cited[k] : k \in 1..Len(cited)}
     /\ \A i \in 1..Len(groups) :
          groups[i].count = Cardinality({k \in 1..Len(cited) : cited[k] = groups[i].rule_id})

UsesOf(id) == IF id \in DOMAIN hist.consumed THEN hist.consumed[id] ELSE 0

\* The validation of session p used (or is about to return having used)
\* the token of that id.
UsedBy(p, id) ==
  /\ op[p].kind = "validate"
  /\ outcome[p].status = "ok"
  /\ \E k \in 1..Len(outcome[p].decision.override_token_ids) :
       outcome[p].decision.override_token_ids[k] = id

\* C11: whatever the interleaving of the sessions of one project, a token
\* with max_uses = 1 lets at most one validation through (two sessions
\* never both return allowed via it), and the stored use_count of a token
\* with max_uses > 0 never exceeds max_uses.
C11_SingleUseTokenUsedOnce ==
  /\ \A i \in 1..Len(tokens) :
       tokens[i].max_uses > 0 => tokens[i].use_count <= tokens[i].max_uses
  /\ \A tok \in hist.generated :
       tok.max_uses > 0 =>
         /\ UsesOf(tok.token_id) <= tok.max_uses
         /\ Cardinality({p \in Sessions : UsedBy(p, tok.token_id)}) <= tok.max_uses

C11_Witness ==
  /\ pc["s1"] = "staged"
  /\ pc["s2"] = "waiting"
  /\ op["s2"] = op["s1"]
  /\ outcome["s1"].decision.decision = "allowed"
  /\ \E tok \in hist.generated :
       /\ tok.max_uses = 1
       /\ UsedBy("s1", tok.token_id)
       /\ outcome["s1"].decision.override_token_ids = <<tok.token_id>>

\* No operation on the token file is in progress.
Quiescent == \A p \in Procs : pc[p] = "idle"

\* The tokens the completed operations leave: every generated token that
\* was not revoked, with one use counted for each consume performed on it.
ExpectedTokens ==
  {[tok EXCEPT !.use_count = UsesOf(tok.token_id)] :
     tok \in {g \in hist.generated : g.token_id \notin hist.revoked}}

\* C12: concurrent generate, consume and revoke operations of the command
\* line and the sessions lose no update: a reader always gets a complete
\* token list (the list of the file as last replaced), and once all
\* operations have finished the file holds exactly the generated tokens
\* that were not revoked, each with use_count equal to the number of
\* consumes performed on it.
C12_NoLostUpdate ==
  /\ (op[Cli].kind = "list" /\ pc[Cli] = "staged") =>
       /\ outcome[Cli].listed = list_tokens(tokens, NoRule, FALSE, now)
       /\ {outcome[Cli].listed[i] : i \in 1..Len(outcome[Cli].listed)} = ExpectedTokens
  /\ Quiescent =>
       /\ {tokens[i] : i \in 1..Len(tokens)} = ExpectedTokens
       /\ Len(tokens) = Cardinality(ExpectedTokens)
       /\ \A id \in hist.revoked : id \notin TokenIds(tokens)

C12_Witness ==
  /\ Quiescent
  /\ ops = MaxOps
  /\ Cardinality(hist.generated) = 2
  /\ Cardinality(hist.revoked) = 1
  /\ Len(tokens) = 1
  /\ tokens[1].use_count = 1
  /\ outcome[Cli].status = "ok"
  /\ \E p \in Sessions : UsedBy(p, tokens[1].token_id)

\* C16: revoke of an id that is not stored reports TokenNotFound, leaves
\* the token file unchanged and is not fatal (the command line is ready for
\* its next operation); revoke of a stored id removes exactly that token
\* and leaves the others unchanged; afterwards find_applicable never gives
\* the revoked token.
C16_RevokeExactlyOne ==
  /\ [](\A id \in hist.revoked :
          /\ id \notin TokenIds(tokens)
          /\ \A inv \in AllInvocations : \A tok \in hist.generated :
               find_applicable(tokens, tok.rule_id, inv, now) # id)
  /\ [][(pc[Cli] = "staged" /\ pc'[Cli] = "idle" /\ op[Cli].kind = "revoke") =>
          LET id == op[Cli].token_id
              kept == {i \in 1..Len(tokens) : tokens[i].token_id # id}
          IN /\ pc'[Cli] = "idle" /\ lock' = NoProc
             /\ IF id \in TokenIds(tokens)
                  THEN /\ outcome'[Cli].status = "ok"
                       /\ Len(tokens') = Len(tokens) - 1
                       /\ Cardinality(kept) = Len(tokens')
                       /\ \A i \in kept :
                            tokens'[Cardinality({j \in kept : j <= i})] = tokens[i]
                  ELSE /\ outcome'[Cli].status = "TokenNotFound"
                       /\ tokens' = tokens
                       /\ hist' = hist]_vars
  /\ [][\A p \in Sessions : (pc[p] = "locked" /\ pc'[p] = "staged") =>
          \A k \in 1..Len(outcome'[p].decision.override_token_ids) :
            outcome'[p].decision.override_token_ids[k] \notin hist.revoked]_vars

C16_Witness ==
  /\ Quiescent
  /\ hist.revoked = {1}
  /\ op[Cli].kind = "revoke"
  /\ op[Cli].token_id = 1
  /\ outcome[Cli].status = "TokenNotFound"
  /\ Len(tokens) = 1
  /\ tokens[1].token_id = 2
  /\ tokens[1] \in hist.generated

\* ------------------------------------------------------------------ claims on the config loader

\* What a field written in a file says, read off the file by hand: lists
\* become sets, the custom rules the rules they were written from.
WrittenRule(raw) ==
  CASE raw = RawCollide -> CustomCollide
    [] raw = RawWriteOnly -> CustomWriteOnly
    [] raw = RawSwitchedOff -> CustomSwitchedOff
    [] raw = RawNoRm -> CustomNoRm

Written(fields, f) ==
  CASE f \in {"allowed_paths", "disabled_rules"} -> Range(fields[f].val)
    [] f = "custom_rules" -> [i \in 1..Len(fields[f].val) |-> WrittenRule(fields[f].val[i])]
    [] OTHER -> fields[f].val

\* The built-in default of a field, as the guide gives it.
BuiltinDefault(f) ==
  CASE f = "enabled" -> TRUE
    [] f = "strict_mode" -> FALSE
    [] f \in {"allowed_paths", "disabled_rules"} -> {}
    [] f = "severity_overrides" -> NoOverrides
    [] f = "custom_rules" -> << >>

\* cfg takes each field from the file when written there, else the default.
FieldByField(cfg, fields) ==
  \A f \in ConfigFields :
    cfg[f] = IF f \in DOMAIN fields THEN Written(fields, f) ELSE BuiltinDefault(f)

\* A file that parses, passes the schema and has only valid custom rules.
SoundFile(file) ==
  /\ file.present
  /\ file.well_formed
  /\ schema_violations(file.fields) = {}
  /\ "custom_rules" \in DOMAIN file.fields =>
       \A i \in 1..Len(file.fields["custom_rules"].val) :
         validate_custom_rule(file.fields["custom_rules"].val[i]) = {}

\* Every one of the 64 subsets of the six fields, written to a file.
SubsetFilesFieldByField ==
  \A S \in SUBSET ConfigFields :
    FieldByField(load_file(ConfigFile(TRUE, TRUE, Restrict(FullFields, S))).config,
                 Restrict(FullFields, S))

\* A load that reads the file (nothing cached before) of project p.
ReadsFile(p) == ~cache[p].loaded /\ cache'[p].loaded

\* C21: a config file that sets only some of the six fields yields a
\* config with each written field from the file and each absent field
\* from the built-in defaults (enabled = true, strict_mode = false),
\* field by field: for all 64 subsets of a full file, and for every file
\* a project loads.
C21_PartialFileInheritsDefaults ==
  /\ []SubsetFilesFieldByField
  /\ [][\A p \in Projects :
          ReadsFile(p) /\ SoundFile(files[p]) =>
            FieldByField(cache'[p].config, files[p].fields)]_vars

C21_Witness ==
  /\ last_op = LoaderOp("load", "projA")
  /\ files["projA"] = FileTuning
  /\ cache["projA"].loaded
  /\ cache["projA"].config.enabled
  /\ ~cache["projA"].config.strict_mode
  /\ cache["projA"].config.allowed_paths = {}
  /\ cache["projA"].config.disabled_rules = {"bash-deprecated-command"}
  /\ Len(cache["projA"].config.custom_rules) = 3
  /\ cache["projB"].loaded
  /\ cache["projB"].config.strict_mode
  /\ cache["projB"].config.enabled

\* The projects a clear is aimed at.
Targets(o) == IF o.project = AllProjects THEN Projects ELSE {o.project}

\* C22: once load has cached the config of a project, every later load
\* for that project returns the same config, whatever the time and
\* whatever the file holds by then; the entry goes away only by a clear
\* aimed at that project or at all projects, so clear_config_cache(p)
\* leaves the entries of the other projects in place, and it does remove
\* the entry of p.
C22_CachedUntilCleared ==
  /\ [](last_op.kind = "clear" => \A p \in Targets(last_op) : ~cache[p].loaded)
  /\ [][\A p \in Projects :
          cache[p].loaded =>
            \/ cache'[p] = cache[p]
            \/ /\ ~cache'[p].loaded
               /\ last_op'.kind = "clear"
               /\ p \in Targets(last_op')]_vars

C22_Witness ==
  /\ last_op = LoaderOp("clear", "projB")
  /\ ~cache["projB"].loaded
  /\ cache["projA"].loaded
  /\ cache["projA"].config.strict_mode
  /\ files["projA"] = FileEmpty
  /\ files["projB"] = FileStrict
  /\ now > 0

UnparseableFiles == {FileMalformed}

SchemaBrokenFiles == {FileBadType, FileBadEnum}

Codes(errors) == {e.code : e \in errors}

RawRules(file) ==
  IF "custom_rules" \in DOMAIN file.fields THEN file.fields["custom_rules"].val ELSE << >>

ValidRaws == {RawNoRm, RawCollide, RawWriteOnly, RawSwitchedOff}

InvalidRaws == {RawBadRegex, RawMissing, RawIllTyped, RawBadEnum}

\* A file that loads, some of whose custom rules are invalid.
SomeRulesInvalid(file) ==
  /\ file.present
  /\ file.well_formed
  /\ file \notin SchemaBrokenFiles
  /\ Range(RawRules(file)) \cap InvalidRaws # {}

ValidRulesOf(file) ==
  {WrittenRule(raw) : raw \in Range(RawRules(file)) \cap ValidRaws}

BuiltinIds == RuleIds(BuiltinRules)

\* The other fields of the config are applied as written.
OtherFieldsAsWritten(cfg, fields) ==
  \A f \in ConfigFields \ {"custom_rules"} :
    cfg[f] = IF f \in DOMAIN fields THEN Written(fields, f) ELSE BuiltinDefault(f)

DistinctIds(rs) == \A i, j \in 1..Len(rs) : rs[i].rule_id = rs[j].rule_id => i = j

ConfigsHaveDistinctIds == \A cfg \in Configs : DistinctIds(RulesOf[cfg])

CitedOnlyActive(rs, inv, d) ==
  \A i \in 1..Len(d.matched_rules) :
    \E r \in Range(rs) :
      /\ r.rule_id = d.matched_rules[i]
      /\ r.enabled
      /\ inv.tool_type \in r.tool_types

\* The same for every configuration of the session on every invocation.
ConfigsCiteOnlyActive ==
  \A cfg \in Configs : \A inv \in AllInvocations :
    CitedOnlyActive(RulesOf[cfg], inv, validate(inv, cfg, RulesOf[cfg], << >>, 0).decision)

\* C26: a decision cites only rules that have enabled = true and whose
\* tool_types holds the tool type of the invocation.
C26_OnlyActiveRulesFire ==
  /\ ConfigsCiteOnlyActive
  /\ last_op.kind = "probe" =>
       CitedOnlyActive(cache[last_op.project].rules, call, decision)

C26_Witness ==
  /\ last_op = LoaderOp("probe", "projA")
  /\ call = RmTmpX
  /\ CustomSwitchedOff \in Range(cache["projA"].rules)
  /\ PatternFires(CustomSwitchedOff, call)
  /\ "bash" \in CustomSwitchedOff.tool_types
  /\ decision.matched_rules = <<"bash-rm-rf-root">>

\* ------------------------------------------------------------------ claims on the anomaly-fix handlers

TerminalStatus == {"completed", "failed", "cancelled"}

\* C28: once the status of a fix is completed, failed or cancelled it
\* never changes again; a cancelled fix is still cancelled after the
\* killed child has emitted close.
C28_TerminalStatusIsFinal ==
  [][\A f \in FixIds :
       (/\ fixStates[f].exists
        /\ fixStates'[f].exists
        /\ fixStates[f].status \in TerminalStatus) =>
         fixStates'[f].status = fixStates[f].status]_vars

\* C29: for each fix at most one terminal notification is sent to the
\* renderer, one ANOMALY_FIX_COMPLETE or one ANOMALY_FIX_ERROR.
C29_AtMostOneTerminalNotification ==
  \A f \in FixIds : sent[f].complete + sent[f].error <= 1

\* ------------------------------------------------------------------ claims on useMemoryGraph

\* C30: whenever graphData is not null it is the graph of the current
\* projectId.
C30_GraphOfCurrentProject ==
  graphData.loaded => graphData.project = projectId

\* The same with the hook at rest: no effect scheduled, no fetch pending,
\* not loading.
GraphAtRest == ~effect_due /\ fetchingRef = {} /\ ~loading

GraphOfCurrentProjectAtRest == GraphAtRest => C30_GraphOfCurrentProject

====
